---- MODULE Spec2Model ----
(***************************************************************************)
(* A model of the JS actor message type inference of tactor (src/ts):      *)
(* the type values of ts.py, their merge (tryUnionWith / unionWith /       *)
(* objectAbsorb / UnionType.absorb), their text and JSON renderings, the   *)
(* type grammar of ts_parse.py and ActorDecls.unify1 of actor_decls.py;    *)
(* the declaration store of actor_decls.py (ActorDecls, ActorDecl,         *)
(* MessageTypes), the grammar of declaration files of ts_parse.py and      *)
(* parseFiles of ts_to_json.py.                                            *)
(*                                                                         *)
(* Python objects are modelled by their values.  An operation that mutates *)
(* an argument in place and returns it is modelled by the value the        *)
(* returned object has after the call; a raised AssertionError is the      *)
(* value AssertionError(site).                                             *)
(***************************************************************************)
EXTENDS Integers, Sequences, FiniteSets, TLC

(***************************************************************************)
(* Type values (ts.py).                                                    *)
(***************************************************************************)
AnyType == [k |-> "any"]

NeverType == [k |-> "never"]

PrimitiveType(n) == [k |-> "prim", name |-> n]

ObjectType(tt) == [k |-> "object", types |-> tt]

ArrayType(e) == [k |-> "array", elementType |-> e]

UnionType(tt) == [k |-> "union", types |-> tt]

\* Python's None: the "incompatible" result of tryUnionWith, a consumed
\* member of absorbUnion, an unset kind slot.
None == [k |-> "None"]

\* A failed assert statement, with the line of the statement.
AssertionError(site) == [k |-> "AssertionError", at |-> site]

IsError(x) == x.k = "AssertionError"

\* A property name is a str or an int (JSPropertyType.__init__).  A str is a
\* sequence of one-character strings.
StrName(s) == [isInt |-> FALSE, s |-> s, i |-> 0]

IntName(i) == [isInt |-> TRUE, s |-> << >>, i |-> i]

JSPropertyType(n, t, opt) == [name |-> n, type |-> t, optional |-> opt]

(***************************************************************************)
(* Characters and Python's str ordering (by code point).                   *)
(***************************************************************************)
Chars ==
    <<" ", "\"", "$", "'", "(", ")", ",", "-",
      "0", "1", "2", "3", "4", "5", "6", "7", "8", "9", ":", ";", "<", "=", ">", "?",
      "A", "B", "C", "D", "E", "F", "G", "H", "I", "J", "K", "L", "M",
      "N", "O", "P", "Q", "R", "S", "T", "U", "V", "W", "X", "Y", "Z",
      "[", "\\", "]", "_",
      "a", "b", "c", "d", "e", "f", "g", "h", "i", "j", "k", "l", "m",
      "n", "o", "p", "q", "r", "s", "t", "u", "v", "w", "x", "y", "z",
      "{", "|", "}">>

\* The position of c in seq, or 0.
Index(seq, c) ==
    IF \E i \in 1..Len(seq) : seq[i] = c
    THEN CHOOSE i \in 1..Len(seq) : seq[i] = c
    ELSE 0

\* The position of c in Chars, which lists the characters by code point.
Ord(c) == Index(Chars, c)

RECURSIVE StrLtFrom(_, _, _)
StrLtFrom(a, b, i) ==
    IF i > Len(b) THEN FALSE
    ELSE IF i > Len(a) THEN TRUE
    ELSE IF a[i] = b[i] THEN StrLtFrom(a, b, i + 1)
    ELSE Ord(a[i]) < Ord(b[i])

StrLt(a, b) == StrLtFrom(a, b, 1)

\* JSPropertyType.__lt__: str names before int names.
PropLt(p, o) ==
    IF ~p.name.isInt
    THEN IF ~o.name.isInt THEN StrLt(p.name.s, o.name.s) ELSE TRUE
    ELSE IF ~o.name.isInt THEN FALSE ELSE p.name.i < o.name.i

(***************************************************************************)
(* The text and JSON renderings (ts.py __str__, jsonStr) and the ordering  *)
(* of types (ts.py __lt__).  A text is a sequence of characters.           *)
(***************************************************************************)
Digits == <<"0", "1", "2", "3", "4", "5", "6", "7", "8", "9">>

IsDigit(c) == Index(Digits, c) > 0

\* \w of a Python regular expression, for the characters of Chars.
IsWordChar(c) ==
    \/ IsDigit(c)
    \/ c = "_"
    \/ Ord("A") <= Ord(c) /\ Ord(c) <= Ord("Z")
    \/ Ord("a") <= Ord(c) /\ Ord(c) <= Ord("z")

\* [\w$]
IsIdChar(c) == IsWordChar(c) \/ c = "$"

\* identifierRe.fullmatch(name): (?!\d)[\w$]+
identifierRe(name) ==
    /\ Len(name) > 0
    /\ ~IsDigit(name[1])
    /\ \A i \in 1..Len(name) : IsIdChar(name[i])

RECURSIVE natStr(_)
natStr(n) ==
    IF n < 10 THEN <<Digits[n + 1]>>
    ELSE natStr(n \div 10) \o <<Digits[(n % 10) + 1]>>

\* str(i) of a Python int.
intStr(i) == IF i < 0 THEN <<"-">> \o natStr(-i) ELSE natStr(i)

RECURSIVE replaceFrom(_, _, _, _)
\* s.replace(old, new), from position i on: the occurrences of old from left
\* to right, none overlapping another.
replaceFrom(s, old, new, i) ==
    IF i > Len(s) THEN << >>
    ELSE IF i + Len(old) - 1 <= Len(s) /\ SubSeq(s, i, i + Len(old) - 1) = old
    THEN new \o replaceFrom(s, old, new, i + Len(old))
    ELSE <<s[i]>> \o replaceFrom(s, old, new, i + 1)

replace(s, old, new) == replaceFrom(s, old, new, 1)

\* JSPropertyType.jsonNameStr
jsonNameStr(p) ==
    IF p.name.isInt THEN intStr(p.name.i)
    ELSE <<"\"">> \o replace(p.name.s, <<"\"">>, <<"\\", "\"">>) \o <<"\"">>

\* JSPropertyType.nameStr
nameStr(p) ==
    IF p.name.isInt THEN intStr(p.name.i)
    ELSE IF identifierRe(p.name.s) THEN p.name.s
    ELSE jsonNameStr(p)

RECURSIVE join(_, _, _)
\* sep.join(l), from element i of l on.
join(sep, l, i) ==
    IF i > Len(l) THEN << >>
    ELSE IF i = Len(l) THEN l[i]
    ELSE l[i] \o sep \o join(sep, l, i + 1)

RECURSIVE str(_)
\* __str__ of the type classes.
str(t) ==
    IF t.k = "any" THEN <<"a", "n", "y">>
    ELSE IF t.k = "never" THEN <<"n", "e", "v", "e", "r">>
    ELSE IF t.k = "prim" THEN t.name
    ELSE IF t.k = "object"
    THEN LET l == [i \in 1..Len(t.types) |->
                     nameStr(t.types[i]) \o (IF t.types[i].optional THEN <<"?">> ELSE << >>)
                     \o <<":", " ">> \o str(t.types[i].type)]
         IN  <<"{">> \o join(<<";", " ">>, l, 1) \o <<"}">>
    ELSE IF t.k = "array"
    THEN <<"A", "r", "r", "a", "y", "<">> \o str(t.elementType) \o <<">">>
    ELSE join(<<" ", "|", " ">>, [i \in 1..Len(t.types) |-> str(t.types[i])], 1)

RECURSIVE jsonStr(_)
RECURSIVE unionJsonStr(_, _, _)
\* UnionType.jsonStr: s = f'["union", {s}, {t.jsonStr()}]' for member i on.
unionJsonStr(s, types, i) ==
    IF i > Len(types) THEN s
    ELSE unionJsonStr(<<"[", "\"", "u", "n", "i", "o", "n", "\"", ",", " ">> \o s
                          \o <<",", " ">> \o jsonStr(types[i]) \o <<"]">>,
                      types, i + 1)

\* jsonStr of the type classes.
jsonStr(t) ==
    IF t.k = "any" THEN <<"\"", "a", "n", "y", "\"">>
    ELSE IF t.k = "never" THEN <<"\"", "n", "e", "v", "e", "r", "\"">>
    ELSE IF t.k = "prim" THEN <<"\"">> \o t.name \o <<"\"">>
    ELSE IF t.k = "object"
    THEN IF Len(t.types) = 0
         THEN <<"[", "\"", "o", "b", "j", "e", "c", "t", "\"", "]">>
         ELSE LET l == [i \in 1..Len(t.types) |->
                          <<"[">> \o jsonNameStr(t.types[i]) \o <<",", " ">>
                          \o jsonStr(t.types[i].type)
                          \o (IF t.types[i].optional THEN <<",", " ", "t", "r", "u", "e">>
                              ELSE << >>)
                          \o <<"]">>]
              IN  <<"[", "\"", "o", "b", "j", "e", "c", "t", "\"", ",", " ">>
                  \o join(<<",", " ">>, l, 1) \o <<"]">>
    ELSE IF t.k = "array"
    THEN <<"[", "\"", "a", "r", "r", "a", "y", "\"", ",", " ">>
         \o jsonStr(t.elementType) \o <<"]">>
    ELSE unionJsonStr(jsonStr(t.types[1]), t.types, 2)

classOrd(t) ==
    CASE t.k = "any" -> 0
      [] t.k = "never" -> 1
      [] t.k = "prim" -> 2
      [] t.k = "object" -> 3
      [] t.k = "array" -> 4
      [] t.k = "union" -> 5

RECURSIVE TypeLt(_, _)
RECURSIVE ListLt(_, _, _)
\* Python's list comparison a < b from element i on: the first elements that
\* differ decide, and a proper prefix is smaller.
ListLt(a, b, i) ==
    IF i > Len(b) THEN FALSE
    ELSE IF i > Len(a) THEN TRUE
    ELSE IF a[i] = b[i] THEN ListLt(a, b, i + 1)
    ELSE TypeLt(a[i], b[i])

\* __lt__ of the type classes.
TypeLt(t, o) ==
    IF classOrd(t) # classOrd(o) THEN classOrd(t) < classOrd(o)
    ELSE IF t.k = "prim" THEN StrLt(t.name, o.name)
    ELSE IF t.k = "object" THEN StrLt(str(t), str(o))
    ELSE IF t.k = "array" THEN TypeLt(t.elementType, o.elementType)
    ELSE IF t.k = "union" THEN ListLt(t.types, o.types, 1)
    ELSE FALSE

(***************************************************************************)
(* The merge of two types (ts.py:238-356).                                 *)
(***************************************************************************)
RECURSIVE tryUnionWith(_, _)
RECURSIVE unionWith(_, _)
RECURSIVE objectAbsorbFrom(_, _, _, _, _)
RECURSIVE absorbNonUnionFrom(_, _, _)
RECURSIVE absorbUnionFrom(_, _, _)
RECURSIVE firstAbsorbed(_, _, _)

\* The value of the object t1 after tryUnionWith(t1, t2) returned r: the call
\* returns t1 itself, merged in place, when both are Objects or both Arrays,
\* and leaves t1 as it was in every other case.
AfterTryUnionWith(t1, t2, r) ==
    IF t1.k \in {"object", "array"} /\ t2.k = t1.k THEN r ELSE t1

\* absorbNonUnion without its loop: t2 is appended whatever the members are.
absorbNonUnionAppends(types, i, t2) == UnionType(Append(types, t2))

\* UnionType.absorbNonUnion, from member i on.  "t = t2New" rebinds the loop
\* variable only: the member keeps the value of its own object.
absorbNonUnionFrom(types, i, t2) ==
    IF i > Len(types) THEN UnionType(Append(types, t2))
    ELSE IF types[i].k = "union" THEN AssertionError(269)
    ELSE LET t2New == tryUnionWith(types[i], t2) IN
         IF IsError(t2New) THEN t2New
         ELSE IF t2New # None
         THEN UnionType([types EXCEPT ![i] = AfterTryUnionWith(types[i], t2, t2New)])
         ELSE absorbNonUnionFrom(types, i + 1, t2)

absorbNonUnion(self, t2) ==
    IF t2.k = "union" THEN AssertionError(267)
    ELSE absorbNonUnionFrom(self.types, 1, t2)

\* The inner loop of absorbUnion: the first member j of o.types, not yet
\* consumed, that t1 unions with.
firstAbsorbed(t1, otypes, j) ==
    IF j > Len(otypes) THEN [j |-> 0, t1New |-> None]
    ELSE IF otypes[j] = None THEN firstAbsorbed(t1, otypes, j + 1)
    ELSE IF otypes[j].k = "union" THEN [j |-> 0, t1New |-> AssertionError(252)]
    ELSE LET t1New == tryUnionWith(t1, otypes[j]) IN
         IF t1New # None THEN [j |-> j, t1New |-> t1New]
         ELSE firstAbsorbed(t1, otypes, j + 1)

\* UnionType.absorbUnion, from member i of self.types on.
absorbUnionFrom(types, otypes, i) ==
    IF i > Len(types)
    THEN UnionType(types \o SelectSeq(otypes, LAMBDA t2 : t2 # None))
    ELSE IF types[i].k = "union" THEN AssertionError(247)
    ELSE LET m == firstAbsorbed(types[i], otypes, 1) IN
         IF IsError(m.t1New) THEN m.t1New
         ELSE IF m.j = 0 THEN absorbUnionFrom(types, otypes, i + 1)
         ELSE absorbUnionFrom([types EXCEPT ![i] = m.t1New],
                              [otypes EXCEPT ![m.j] = None], i + 1)

absorbUnion(self, o) == absorbUnionFrom(self.types, o.types, 1)

absorb(self, o) ==
    IF o.k = "union" THEN absorbUnion(self, o) ELSE absorbNonUnion(self, o)

\* A property moved over with its optional mark left as it was.
movedOverAsIs(p) == p

\* "stringFieldTypes[-1].optional = True": a property only one side has.
movedOver(p) == [p EXCEPT !.optional = TRUE]

\* objectAbsorb that moves no smaller property of the other object over
\* before a property of t1: the properties of t1, then the rest of t2.
objectAbsorbFromOwnFirst(p1, p2, i, otherIndex, stringFieldTypes) ==
    IF i > Len(p1)
    THEN IF otherIndex > Len(p2) THEN ObjectType(stringFieldTypes)
         ELSE objectAbsorbFrom(p1, p2, i, otherIndex + 1,
                  Append(stringFieldTypes, movedOver(p2[otherIndex])))
    ELSE IF otherIndex <= Len(p2) /\ p1[i].name = p2[otherIndex].name
    THEN LET t == unionWith(p1[i].type, p2[otherIndex].type) IN
         IF IsError(t) THEN t
         ELSE objectAbsorbFrom(p1, p2, i + 1, otherIndex + 1,
                  Append(stringFieldTypes,
                         JSPropertyType(p1[i].name, t,
                                        p1[i].optional \/ p2[otherIndex].optional)))
    ELSE objectAbsorbFrom(p1, p2, i + 1, otherIndex,
             Append(stringFieldTypes, movedOver(p1[i])))

\* objectAbsorb: the merge of the sorted property lists p1 and p2, from
\* property i of p1 and property otherIndex of p2 on.
objectAbsorbFrom(p1, p2, i, otherIndex, stringFieldTypes) ==
    IF i > Len(p1)
    THEN IF otherIndex > Len(p2) THEN ObjectType(stringFieldTypes)
         ELSE objectAbsorbFrom(p1, p2, i, otherIndex + 1,
                  Append(stringFieldTypes, movedOver(p2[otherIndex])))
    ELSE IF otherIndex <= Len(p2) /\ PropLt(p2[otherIndex], p1[i])
    THEN objectAbsorbFrom(p1, p2, i, otherIndex + 1,
             Append(stringFieldTypes, movedOver(p2[otherIndex])))
    ELSE IF otherIndex <= Len(p2) /\ p1[i].name = p2[otherIndex].name
    THEN LET t == unionWith(p1[i].type, p2[otherIndex].type) IN
         IF IsError(t) THEN t
         ELSE objectAbsorbFrom(p1, p2, i + 1, otherIndex + 1,
                  Append(stringFieldTypes,
                         JSPropertyType(p1[i].name, t,
                                        p1[i].optional \/ p2[otherIndex].optional)))
    ELSE objectAbsorbFrom(p1, p2, i + 1, otherIndex,
             Append(stringFieldTypes, movedOver(p1[i])))

objectAbsorb(t1, t2) == objectAbsorbFrom(t1.types, t2.types, 1, 1, << >>)

\* tryUnionWith that merges two Arrays only when their element types are
\* equal.
tryUnionWithEqualArrays(t1, t2) ==
    IF t2.k = "any" THEN t2
    ELSE IF t2.k = "never" THEN t1
    ELSE IF t2.k = "union" THEN absorb(t2, t1)
    ELSE IF t1.k = "any" THEN t1
    ELSE IF t1.k = "never" THEN t2
    ELSE IF t1.k = "prim"
    THEN IF t2.k = "prim" /\ t1.name = t2.name THEN t1 ELSE None
    ELSE IF t1.k = "object"
    THEN IF t2.k # "object" THEN None ELSE objectAbsorb(t1, t2)
    ELSE IF t1.k = "array"
    THEN IF t2.k # "array" \/ t1.elementType # t2.elementType THEN None ELSE t1
    ELSE IF t1.k = "union" THEN absorbNonUnion(t1, t2)
    ELSE AssertionError(313)

tryUnionWith(t1, t2) ==
    IF t2.k = "any" THEN t2
    ELSE IF t2.k = "never" THEN t1
    ELSE IF t2.k = "union" THEN absorb(t2, t1)
    ELSE IF t1.k = "any" THEN t1
    ELSE IF t1.k = "never" THEN t2
    ELSE IF t1.k = "prim"
    THEN IF t2.k = "prim" /\ t1.name = t2.name THEN t1 ELSE None
    ELSE IF t1.k = "object"
    THEN IF t2.k # "object" THEN None ELSE objectAbsorb(t1, t2)
    ELSE IF t1.k = "array"
    THEN IF t2.k # "array" THEN None
         ELSE LET e == unionWith(t1.elementType, t2.elementType) IN
              IF IsError(e) THEN e ELSE ArrayType(e)
    ELSE IF t1.k = "union" THEN absorbNonUnion(t1, t2)
    ELSE AssertionError(313)

unionWith(t1, t2) ==
    LET t3 == tryUnionWith(t1, t2) IN
    IF t3 # None THEN t3 ELSE UnionType(<<t1, t2>>)

(***************************************************************************)
(* The arguments of tryUnionWith after the call: the merge changes the     *)
(* objects it is given in place (ts.py:244-356).                           *)
(***************************************************************************)
RECURSIVE arg2After(_, _)
RECURSIVE absorbNonUnionArg(_, _, _)
RECURSIVE objectAbsorbOther(_, _, _, _, _)
RECURSIVE absorbUnionOther(_, _, _)

\* absorbNonUnion(t2) on the members from i on: the value of the object t2
\* after tryUnionWith(t, t2) for the members up to the first that takes it.
absorbNonUnionArg(types, i, t2) ==
    IF i > Len(types) THEN t2
    ELSE IF tryUnionWith(types[i], t2) # None THEN arg2After(types[i], t2)
    ELSE absorbNonUnionArg(types, i + 1, arg2After(types[i], t2))

\* absorbUnion(o): o.types after the call, "o.types[j] = None" for every
\* member that a member of self.types has taken.
absorbUnionOther(types, otypes, i) ==
    IF i > Len(types) THEN [k |-> "union", types |-> otypes]
    ELSE IF firstAbsorbed(types[i], otypes, 1).j = 0
    THEN absorbUnionOther(types, otypes, i + 1)
    ELSE absorbUnionOther(types,
                          [otypes EXCEPT ![firstAbsorbed(types[i], otypes, 1).j] = None],
                          i + 1)

\* objectAbsorb(t1, t2): the properties of t2 after the call.  Those that
\* are moved over are marked optional in place; the type of a property of
\* both is the second argument of unionWith(p.type, ...).
objectAbsorbOther(p1, p2, i, otherIndex, types) ==
    IF i > Len(p1)
    THEN IF otherIndex > Len(p2) THEN types
         ELSE objectAbsorbOther(p1, p2, i, otherIndex + 1,
                  Append(types, movedOver(p2[otherIndex])))
    ELSE IF otherIndex <= Len(p2) /\ PropLt(p2[otherIndex], p1[i])
    THEN objectAbsorbOther(p1, p2, i, otherIndex + 1,
             Append(types, movedOver(p2[otherIndex])))
    ELSE IF otherIndex <= Len(p2) /\ p1[i].name = p2[otherIndex].name
    THEN objectAbsorbOther(p1, p2, i + 1, otherIndex + 1,
             Append(types, JSPropertyType(p2[otherIndex].name,
                                          arg2After(p1[i].type, p2[otherIndex].type),
                                          p2[otherIndex].optional)))
    ELSE objectAbsorbOther(p1, p2, i + 1, otherIndex, types)

\* The value of the object t2 after tryUnionWith(t1, t2) has returned.
arg2After(t1, t2) ==
    IF t2.k \in {"any", "never"} THEN t2
    ELSE IF t2.k = "union" THEN tryUnionWith(t1, t2)
    ELSE IF t1.k \in {"any", "never", "prim"} THEN t2
    ELSE IF t1.k = "object"
    THEN IF t2.k # "object" THEN t2
         ELSE ObjectType(objectAbsorbOther(t1.types, t2.types, 1, 1, << >>))
    ELSE IF t1.k = "array"
    THEN IF t2.k # "array" THEN t2
         ELSE ArrayType(arg2After(t1.elementType, t2.elementType))
    ELSE absorbNonUnionArg(t1.types, 1, t2)

\* tryUnionWith that marks the properties of an Object t1 optional before
\* it looks at the class of t2.
arg1AfterMarksFirst(t1, t2) ==
    IF t2.k \in {"any", "never"} THEN t1
    ELSE IF t2.k = "union"
    THEN IF t1.k = "union" THEN absorbUnionOther(t2.types, t1.types, 1)
         ELSE absorbNonUnionArg(t2.types, 1, t1)
    ELSE IF t1.k \in {"any", "never", "prim"} THEN t1
    ELSE IF t1.k = "object" /\ t2.k # "object"
    THEN ObjectType([i \in 1..Len(t1.types) |-> movedOver(t1.types[i])])
    ELSE IF t1.k = "array" /\ t2.k # "array" THEN t1
    ELSE tryUnionWith(t1, t2)

\* The value of the object t1 after tryUnionWith(t1, t2) has returned.
arg1After(t1, t2) ==
    IF t2.k \in {"any", "never"} THEN t1
    ELSE IF t2.k = "union"
    THEN IF t1.k = "union" THEN absorbUnionOther(t2.types, t1.types, 1)
         ELSE absorbNonUnionArg(t2.types, 1, t1)
    ELSE IF t1.k \in {"any", "never", "prim"} THEN t1
    ELSE IF t1.k = "object" /\ t2.k # "object" THEN t1
    ELSE IF t1.k = "array" /\ t2.k # "array" THEN t1
    ELSE tryUnionWith(t1, t2)

\* The two arguments after tryUnionWith(t1, t2), or what the call raised.
tryUnionWithArgs(t1, t2) ==
    IF IsError(tryUnionWith(t1, t2)) THEN tryUnionWith(t1, t2)
    ELSE <<arg1After(t1, t2), arg2After(t1, t2)>>

(***************************************************************************)
(* The tokenizer of ts_parse.py.                                           *)
(***************************************************************************)
primitiveTypes ==
    { <<"u", "n", "d", "e", "f", "i", "n", "e", "d">>,
      <<"s", "t", "r", "i", "n", "g">>,
      <<"n", "u", "l", "l">>,
      <<"b", "o", "o", "l", "e", "a", "n">>,
      <<"n", "u", "m", "b", "e", "r">>,
      <<"n", "s", "I", "P", "r", "i", "n", "c", "i", "p", "a", "l">>,
      <<"B", "r", "o", "w", "s", "i", "n", "g", "C", "o", "n", "t", "e", "x", "t">> }

\* Tokenizer.reserved; a reserved word's token type is the word in upper
\* case, which the grammar tells from ID: here the type "PRIMITIVE" for the
\* words of primitiveTypes, and ANY, NEVER, TESTONLY, ARRAY, SET.
reservedType(value) ==
    IF value \in primitiveTypes THEN "PRIMITIVE"
    ELSE IF value = <<"a", "n", "y">> THEN "ANY"
    ELSE IF value = <<"n", "e", "v", "e", "r">> THEN "NEVER"
    ELSE IF value = <<"t", "e", "s", "t", "O", "n", "l", "y">> THEN "TESTONLY"
    ELSE IF value = <<"A", "r", "r", "a", "y">> THEN "ARRAY"
    ELSE IF value = <<"S", "e", "t">> THEN "SET"
    ELSE "ID"

literals == {"(", ")", "{", "}", ",", "?", ":", ";", "<", ">", "|", "="}

ActorError(msg) == [k |-> "ActorError", msg |-> msg]

Token(type, value) == [k |-> "token", type |-> type, value |-> value]

RECURSIVE idEnd(_, _)
\* The last character of the longest run of [\w$] that starts at i.
idEnd(text, i) ==
    IF i + 1 <= Len(text) /\ IsIdChar(text[i + 1]) THEN idEnd(text, i + 1) ELSE i

RECURSIVE digitsEnd(_, _)
digitsEnd(text, i) ==
    IF i + 1 <= Len(text) /\ IsDigit(text[i + 1]) THEN digitsEnd(text, i + 1) ELSE i

RECURSIVE natValue(_, _)
\* int() of the first n digits of a run of digits.
natValue(digits, n) ==
    IF n = 0 THEN 0
    ELSE 10 * natValue(digits, n - 1) + (Index(Digits, digits[n]) - 1)

RECURSIVE stringEnd(_, _, _)
\* (?:[^q\\\n]|\\.)*q from position j on: the position of the closing quote
\* q, or 0 when the text has none.
stringEnd(text, j, q) ==
    IF j > Len(text) THEN 0
    ELSE IF text[j] = q THEN j
    ELSE IF text[j] = "\\"
    THEN IF j + 1 <= Len(text) THEN stringEnd(text, j + 2, q) ELSE 0
    ELSE stringEnd(text, j + 1, q)

\* t_STRING_SINGLE, t_STRING_DOUBLE: t.value[1:-1].replace("\\q", "q")
stringValue(inner, q) == replace(inner, <<"\\", q>>, <<q>>)

\* int(t.value) is a Python int, of any size: the digits of its magnitude,
\* without the zeros at the start.
magnitude(digits) ==
    IF \A j \in 1..Len(digits) : digits[j] = "0" THEN << >>
    ELSE SubSeq(digits, CHOOSE j \in 1..Len(digits) :
                            digits[j] # "0" /\ \A h \in 1..(j - 1) : digits[h] = "0",
                Len(digits))

\* a < b for two magnitudes.
magnitudeLt(a, b) ==
    \/ Len(a) < Len(b)
    \/ /\ Len(a) = Len(b)
       /\ \E j \in 1..Len(a) :
             /\ Index(Digits, a[j]) < Index(Digits, b[j])
             /\ \A h \in 1..(j - 1) : a[h] = b[h]

\* The magnitudes of -2147483648 and of 2147483647.
MinMagnitude == <<"2", "1", "4", "7", "4", "8", "3", "6", "4", "8">>

MaxMagnitude == <<"2", "1", "4", "7", "4", "8", "3", "6", "4", "7">>

\* t_INTEGER that takes 2147483647 as too large.
t_INTEGERBelowMax(digits, negative) ==
    LET m == magnitude(digits) IN
    IF negative /\ magnitudeLt(MinMagnitude, m) THEN ActorError("Integer is too small")
    ELSE IF ~negative /\ ~magnitudeLt(m, MaxMagnitude)
    THEN ActorError("Integer is too large")
    ELSE IF negative /\ m = MinMagnitude THEN Token("INTEGER", (0 - 2147483647) - 1)
    ELSE IF negative THEN Token("INTEGER", 0 - natValue(m, Len(m)))
    ELSE Token("INTEGER", natValue(m, Len(m)))

\* t_INTEGER
t_INTEGER(digits, negative) ==
    LET m == magnitude(digits) IN
    IF negative /\ magnitudeLt(MinMagnitude, m) THEN ActorError("Integer is too small")
    ELSE IF ~negative /\ magnitudeLt(MaxMagnitude, m) THEN ActorError("Integer is too large")
    ELSE IF negative /\ m = MinMagnitude THEN Token("INTEGER", (0 - 2147483647) - 1)
    ELSE IF negative THEN Token("INTEGER", 0 - natValue(m, Len(m)))
    ELSE Token("INTEGER", natValue(m, Len(m)))

\* t.value of the token matched at position i, and the position after it.
Matched(token, next) == [k |-> "matched", token |-> token, next |-> next]

\* The rule that matches at position i of text, in the order of the
\* tokenizer: t_ID, t_INTEGER, t_STRING_SINGLE, t_STRING_DOUBLE, t_ARROW, the
\* literals, t_error.
token(text, i) ==
    IF IsIdChar(text[i]) /\ ~IsDigit(text[i])
    THEN LET value == SubSeq(text, i, idEnd(text, i)) IN
         Matched(Token(reservedType(value), value), idEnd(text, i) + 1)
    ELSE IF IsDigit(text[i])
    THEN Matched(t_INTEGER(SubSeq(text, i, digitsEnd(text, i)), FALSE), digitsEnd(text, i) + 1)
    ELSE IF text[i] = "-" /\ i + 1 <= Len(text) /\ IsDigit(text[i + 1])
    THEN Matched(t_INTEGER(SubSeq(text, i + 1, digitsEnd(text, i + 1)), TRUE),
                 digitsEnd(text, i + 1) + 1)
    ELSE IF text[i] = "'" /\ stringEnd(text, i + 1, "'") > 0
    THEN LET e == stringEnd(text, i + 1, "'") IN
         Matched(Token("STRING_SINGLE", stringValue(SubSeq(text, i + 1, e - 1), "'")), e + 1)
    ELSE IF text[i] = "\"" /\ stringEnd(text, i + 1, "\"") > 0
    THEN LET e == stringEnd(text, i + 1, "\"") IN
         Matched(Token("STRING_DOUBLE", stringValue(SubSeq(text, i + 1, e - 1), "\"")), e + 1)
    ELSE IF text[i] = "=" /\ i + 1 <= Len(text) /\ text[i + 1] = ">"
    THEN Matched(Token("ARROW", <<"=", ">">>), i + 2)
    ELSE IF text[i] \in literals
    THEN Matched(Token(text[i], <<text[i]>>), i + 1)
    ELSE Matched(ActorError("Bad character"), i)

\* t_ignore: the first position from i on that holds no space, or the
\* position after the text.
ignore(text, i) ==
    IF \E j \in i..Len(text) : text[j] # " "
    THEN CHOOSE j \in i..Len(text) : text[j] # " " /\ \A h \in i..(j - 1) : text[h] = " "
    ELSE Len(text) + 1

\* t_linecomment: the position of the "\n" that ends the comment, or the
\* position after the text.
lineCommentEnd(text, i) ==
    IF \E j \in i..Len(text) : text[j] = "\n"
    THEN CHOOSE j \in i..Len(text) : text[j] = "\n" /\ \A h \in i..(j - 1) : text[h] # "\n"
    ELSE Len(text) + 1

\* t_multilinecomment, /\*(\n|.)*?\*/ at position i: the position of the "/"
\* of the first "*/" after the "/*", or 0 when the text has none.
multilineCommentEnd(text, i) ==
    LET ends == {j \in (i + 3)..Len(text) : text[j - 1] = "*" /\ text[j] = "/"} IN
    IF ends = {} THEN 0 ELSE CHOOSE j \in ends : \A h \in ends : j <= h

\* t.value.count("\n")
count(text, from, to) == Cardinality({j \in from..to : text[j] = "\n"})

RECURSIVE skip(_, _, _)
\* t_ignore, t_newline, t_linecomment and t_multilinecomment give no token:
\* the position of the next token from i on and lexer.lineno there.
skip(text, i, lineno) ==
    LET j == ignore(text, i) IN
    IF j > Len(text) THEN [i |-> j, lineno |-> lineno]
    ELSE IF text[j] = "\n" THEN skip(text, j + 1, lineno + 1)
    ELSE IF text[j] = "/" /\ j + 1 <= Len(text) /\ text[j + 1] = "/"
    THEN skip(text, lineCommentEnd(text, j), lineno)
    ELSE IF text[j] = "/" /\ j + 1 <= Len(text) /\ text[j + 1] = "*"
            /\ multilineCommentEnd(text, j) > 0
    THEN skip(text, multilineCommentEnd(text, j) + 1,
              lineno + count(text, j, multilineCommentEnd(text, j)))
    ELSE [i |-> j, lineno |-> lineno]

\* tok.lineno = lexer.lineno
TokenAt(tok, lineno) ==
    [k |-> "token", type |-> tok.type, value |-> tok.value, lineno |-> lineno]

RECURSIVE lex(_, _, _)
\* The tokens of text from position i on, lexer.lineno being lineno there, or
\* the error raised.
lex(text, i, lineno) ==
    LET at == skip(text, i, lineno)
        m == token(text, at.i)
        l == lex(text, m.next, at.lineno)
    IN  IF at.i > Len(text) THEN [k |-> "tokens", toks |-> << >>]
        ELSE IF m.token.k = "ActorError" THEN m.token
        ELSE IF l.k = "ActorError" THEN l
        ELSE [k |-> "tokens", toks |-> <<TokenAt(m.token, at.lineno)>> \o l.toks]

(***************************************************************************)
(* The types the merge is applied to: the values the type grammar builds   *)
(* (ts_parse.py:125-239), and then the results of earlier merges.          *)
(***************************************************************************)
\* primitiveTypes (ts.py:60-68), as the two of its names the model merges.
Str == PrimitiveType(<<"s", "t", "r", "i", "n", "g">>)

Num == PrimitiveType(<<"n", "u", "m", "b", "e", "r">>)

NameA == StrName(<<"A">>)

NameB == StrName(<<"B">>)

Name8 == IntName(8)

\* p_JSType, JSType '|' JSType: the left operand's members, or the left
\* operand, and then the right operand as one member.
p_JSType_union(p1, p3) ==
    UnionType(Append(IF p1.k = "union" THEN p1.types ELSE <<p1>>, p3))

\* p_ObjectTypeInner: the properties in the order written; a name that is
\* not written is NoProp here.
NoProp == [k |-> "absent"]

p_ObjectTypeInner(n, decl) ==
    IF decl = NoProp THEN << >> ELSE <<JSPropertyType(n, decl.type, decl.optional)>>

Leaves == {AnyType, NeverType, Str, Num}

PropDecls ==
    {NoProp} \cup {[k |-> "prop", type |-> AnyType, optional |-> o] : o \in BOOLEAN}
             \cup {[k |-> "prop", type |-> Str, optional |-> FALSE]}

\* Objects of at most two properties, written in sorted order (the
\* ObjectType constructor asserts the order).
FlatObjects ==
    {ObjectType(p_ObjectTypeInner(NameA, a) \o p_ObjectTypeInner(NameB, b)
                \o p_ObjectTypeInner(Name8, c)) :
        <<a, b, c>> \in {d \in PropDecls \X PropDecls \X PropDecls :
                            NoProp \in {d[1], d[2], d[3]}}}

ObjA == ObjectType(<<JSPropertyType(NameA, AnyType, FALSE)>>)

ObjB == ObjectType(<<JSPropertyType(NameB, AnyType, FALSE)>>)

ObjAB == ObjectType(<<JSPropertyType(NameA, AnyType, FALSE),
                      JSPropertyType(NameB, AnyType, FALSE)>>)

Members == Leaves \cup {ObjA, ObjB, ObjAB, ArrayType(NeverType), ArrayType(AnyType)}

\* "a | b"
Unions2 == {p_JSType_union(a, b) : a, b \in Members}

\* "a | b | c", which the grammar reads as "(a | b) | c", and "a | (b | c)".
Unions3 ==
    {p_JSType_union(u, c) : u \in {p_JSType_union(Str, Num), p_JSType_union(ObjA, ObjB)},
                            c \in Leaves \cup {ObjAB}}
    \cup {p_JSType_union(a, u) : a \in {Str, ObjA},
                                 u \in {p_JSType_union(Num, Str), p_JSType_union(Num, NeverType)}}

Arrays ==
    {ArrayType(e) : e \in Leaves \cup {ObjA, p_JSType_union(Str, Num),
                                       p_JSType_union(Str, p_JSType_union(Num, Str))}}

NestedObjects ==
    {ObjectType(<<JSPropertyType(NameA, t, o)>>) :
        t \in {p_JSType_union(Str, Num), p_JSType_union(Num, NeverType), ObjB,
               ArrayType(NeverType), p_JSType_union(Str, p_JSType_union(Num, Str)),
               p_JSType_union(p_JSType_union(Str, Num), Str)},
        o \in BOOLEAN}

ParsedTypes == Leaves \cup FlatObjects \cup NestedObjects \cup Arrays \cup Unions2 \cup Unions3

\* The characters between the quotes of a property name that is written as
\* a string, and how many of them.
InnerChars == {"A", "8", " ", "\\", "\"", "'"}

MaxInner == 2

Inners == UNION {[1..n -> InnerChars] : n \in 0..MaxInner}

\* The names that t_STRING_SINGLE and t_STRING_DOUBLE give: the values of the
\* string tokens 'inner' and "inner".
QuotedNames ==
    {stringValue(inner, q) : <<inner, q>> \in
        {c \in Inners \X {"'", "\""} : stringEnd(c[1] \o <<c[2]>>, 1, c[2]) = Len(c[1]) + 1}}

\* "{'inner': any}", "{'inner'?: any}", "{'inner': any; 8?: string}"
QuotedObjects ==
    {ObjectType(<<JSPropertyType(StrName(n), AnyType, o)>>) : n \in QuotedNames, o \in BOOLEAN}
    \cup {ObjectType(<<JSPropertyType(StrName(n), AnyType, FALSE),
                       JSPropertyType(Name8, Str, TRUE)>>) : n \in QuotedNames}

\* The types that are rendered.
TextTypes == ParsedTypes \cup QuotedObjects

\* The observations that a fold of unify1 goes on with.
FoldTypes == {Str, ObjB, ArrayType(Num), p_JSType_union(Num, ObjAB), NeverType}

\* How many results are merged further.
MaxFold == 1

(***************************************************************************)
(* The type grammar of ts_parse.py.  A rule reads the tokens from position *)
(* i on and gives the value it builds and the position after it, or the    *)
(* error raised.                                                           *)
(***************************************************************************)
Parsed(v, i) == [ok |-> TRUE, v |-> v, i |-> i]

Failed(e) == [ok |-> FALSE, v |-> e, i |-> 0]

\* p_error
SyntaxError == Failed(ActorError("Syntax error"))

TokenType(toks, i) == IF i <= Len(toks) THEN toks[i].type ELSE "$end"

\* ObjectType.__init__: the properties must be in order, without duplicates.
NewObjectType(tt) ==
    IF \A i \in 1..(Len(tt) - 1) : PropLt(tt[i], tt[i + 1])
    THEN ObjectType(tt)
    ELSE AssertionError(149)

\* p_PropertyName
p_PropertyName(toks, i) ==
    IF TokenType(toks, i) = "INTEGER" THEN Parsed(IntName(toks[i].value), i + 1)
    ELSE IF TokenType(toks, i) \in {"ID", "STRING_SINGLE", "STRING_DOUBLE", "PRIMITIVE",
                                    "ANY", "NEVER", "TESTONLY", "ARRAY", "SET"}
    THEN Parsed(StrName(toks[i].value), i + 1)
    ELSE SyntaxError

\* p_MaybeOptional
p_MaybeOptional(toks, i) ==
    IF TokenType(toks, i) = "?" /\ TokenType(toks, i + 1) = ":" THEN Parsed(TRUE, i + 2)
    ELSE IF TokenType(toks, i) = ":" THEN Parsed(FALSE, i + 1)
    ELSE SyntaxError

RECURSIVE p_JSType(_, _)
RECURSIVE p_JSType_operand(_, _)
RECURSIVE p_JSType_rest(_, _, _)
RECURSIVE p_ObjectTypeInnerFrom(_, _, _)

\* p_ObjectTypeInner and the end of p_ObjectType: the properties after tt,
\* with a separator between two of them and maybe one after the last.
p_ObjectTypeInnerFrom(toks, i, tt) ==
    LET n == p_PropertyName(toks, i)
        o == p_MaybeOptional(toks, n.i)
        t == p_JSType(toks, o.i)
        tt2 == Append(tt, JSPropertyType(n.v, t.v, o.v))
    IN  IF ~n.ok THEN n
        ELSE IF ~o.ok THEN o
        ELSE IF ~t.ok THEN t
        ELSE IF TokenType(toks, t.i) = "}" THEN Parsed(tt2, t.i + 1)
        ELSE IF TokenType(toks, t.i) \in {",", ";"}
        THEN IF TokenType(toks, t.i + 1) = "}" THEN Parsed(tt2, t.i + 2)
             ELSE p_ObjectTypeInnerFrom(toks, t.i + 1, tt2)
        ELSE SyntaxError

\* p_ObjectType, after the "{"
p_ObjectType(toks, i) ==
    IF TokenType(toks, i) = "}" THEN Parsed(NewObjectType(<< >>), i + 1)
    ELSE LET tt == p_ObjectTypeInnerFrom(toks, i, << >>) IN
         IF ~tt.ok THEN tt
         ELSE IF IsError(NewObjectType(tt.v)) THEN Failed(NewObjectType(tt.v))
         ELSE Parsed(NewObjectType(tt.v), tt.i)

\* p_ArrayOrSetType for Array, after the word: an array of ts.py.
p_ArrayOrSetType(toks, i) ==
    LET e == p_JSType(toks, i + 1) IN
    IF TokenType(toks, i) # "<" THEN SyntaxError
    ELSE IF ~e.ok THEN e
    ELSE IF TokenType(toks, e.i) # ">" THEN SyntaxError
    ELSE Parsed(ArrayType(e.v), e.i + 1)

\* p_JSType, one operand of "|": a primitive, any, never, an object, an
\* array, '|' JSType or '(' JSType ')'.
p_JSType_operand(toks, i) ==
    LET type == TokenType(toks, i) IN
    IF type = "PRIMITIVE" THEN Parsed(PrimitiveType(toks[i].value), i + 1)
    ELSE IF type = "ANY" THEN Parsed(AnyType, i + 1)
    ELSE IF type = "NEVER" THEN Parsed(NeverType, i + 1)
    ELSE IF type = "{" THEN p_ObjectType(toks, i + 1)
    ELSE IF type = "ARRAY" THEN p_ArrayOrSetType(toks, i + 1)
    ELSE IF type = "|" THEN p_JSType_operand(toks, i + 1)
    ELSE IF type = "("
    THEN LET t == p_JSType(toks, i + 1) IN
         IF ~t.ok THEN t
         ELSE IF TokenType(toks, t.i) # ")" THEN SyntaxError
         ELSE Parsed(t.v, t.i + 1)
    ELSE SyntaxError

\* p_JSType, JSType '|' JSType, left associative: the operands after p1.
p_JSType_rest(toks, p1, i) ==
    IF TokenType(toks, i) # "|" THEN Parsed(p1, i)
    ELSE LET p3 == p_JSType_operand(toks, i + 1) IN
         IF ~p3.ok THEN p3
         ELSE p_JSType_rest(toks, p_JSType_union(p1, p3.v), p3.i)

p_JSType(toks, i) ==
    LET p1 == p_JSType_operand(toks, i) IN
    IF ~p1.ok THEN p1 ELSE p_JSType_rest(toks, p1.v, p1.i)

\* TypeParser.parse(s): the type, or the error raised.
parse(s) ==
    LET l == lex(s, 1, 1) IN
    IF l.k = "ActorError" THEN l
    ELSE LET t == p_JSType(l.toks, 1) IN
         IF ~t.ok THEN t.v
         ELSE IF t.i <= Len(l.toks) THEN SyntaxError.v
         ELSE t.v

(***************************************************************************)
(* ActorDecls.unify1 (actor_decls.py:198-259).                             *)
(***************************************************************************)
\* unify1's result: the list it returns, or the exception it raises.
Returned(newTypes) == [k |-> "returned", newTypes |-> newTypes]

Raised(msg) == [k |-> "raised", msg |-> msg]

RECURSIVE unionWithAll(_, _, _)
\* "for t in types": tCombined = unionWith(tCombined, t), from observation i on.
unionWithAll(tCombined, types, i) ==
    IF i > Len(types) THEN tCombined
    ELSE LET t == unionWith(tCombined, types[i]) IN
         IF IsError(t) THEN t ELSE unionWithAll(t, types, i + 1)

\* One round of the loop that keeps the last observation of the kind only.
unify1SlotLast(kindTypes, kind) ==
    LET types == kindTypes[kind + 1] IN
    IF Len(types) = 0
    THEN IF kind = 3 /\ Len(kindTypes[3]) > 0 THEN AnyType ELSE None
    ELSE types[Len(types)]

\* One round of "for kind in range(len(kindTypes))": what is appended to
\* newTypes for this kind (kinds are 0..3 in the code, kindTypes[kind + 1] here).
unify1Slot(kindTypes, kind) ==
    LET types == kindTypes[kind + 1] IN
    IF Len(types) = 0
    THEN IF kind = 3 /\ Len(kindTypes[3]) > 0 THEN AnyType ELSE None
    ELSE IF Len(types) = 1 THEN types[1]
    ELSE unionWithAll(types[1], types, 2)

\* lastNonNone after the loop: the last kind whose slot was set.
unify1LastNonNone(newTypes) ==
    IF \E kind \in 0..3 : newTypes[kind + 1] # None
    THEN CHOOSE kind \in 0..3 :
            /\ newTypes[kind + 1] # None
            /\ \A later \in 0..3 : later > kind => newTypes[later + 1] = None
    ELSE -1

\* The checks with the query reject check first.
unify1CheckRejectFirst(a, m, newTypes) ==
    IF Len(newTypes) = 4 /\ newTypes[3] = None
    THEN Raised("has query reject, but not query resolve type")
    ELSE IF Len(newTypes) > 1 /\ newTypes[1] # None
    THEN Raised("has both message and query types")
    ELSE Returned(newTypes)

\* The checks without the query reject check.
unify1CheckNoReject(a, m, newTypes) ==
    IF Len(newTypes) > 1 /\ newTypes[1] # None
    THEN Raised("has both message and query types")
    ELSE Returned(newTypes)

\* The checks without the query reject check, with the slice.
unify1CheckSlicesOnly(a, m, newTypes) ==
    IF Len(newTypes) = 0 THEN Raised("has no types")
    ELSE IF Len(newTypes) > 1
    THEN IF newTypes[1] # None THEN Raised("has both message and query types")
         ELSE LET queryTypes == SubSeq(newTypes, 2, IF Len(newTypes) < 3 THEN Len(newTypes) ELSE 3) IN
              Returned(IF Len(queryTypes) = 1 THEN Append(queryTypes, None) ELSE queryTypes)
    ELSE Returned(newTypes)

\* The checks on the trimmed list (actor_decls.py:239-259).
unify1Check(a, m, newTypes) ==
    IF Len(newTypes) = 0 THEN Raised("has no types")
    ELSE IF Len(newTypes) > 1
    THEN IF newTypes[1] # None THEN Raised("has both message and query types")
         ELSE IF Len(newTypes) = 4 /\ newTypes[3] = None
         THEN Raised("has query reject, but not query resolve type")
         ELSE LET queryTypes == SubSeq(newTypes, 2, IF Len(newTypes) < 3 THEN Len(newTypes) ELSE 3) IN
              Returned(IF Len(queryTypes) = 1 THEN Append(queryTypes, None) ELSE queryTypes)
    ELSE Returned(newTypes)

unify1(a, m, kindTypes) ==
    LET newTypes == [kind \in 1..4 |-> unify1Slot(kindTypes, kind - 1)] IN
    IF \E kind \in 1..4 : IsError(newTypes[kind])
    THEN Raised("AssertionError")
    ELSE unify1Check(a, m, SubSeq(newTypes, 1, unify1LastNonNone(newTypes) + 1))

\* The test actors of overrides.py:163-174 (two of them), and another actor.
TestActors == {"SpecialPowers", "TestWindow"}

Actors == TestActors \cup {"Conduits"}

\* The observations of a message: parsed and simplified types
\* (logparse.py:160-187).
ObsTypes == {Str, ObjA}

\* How many observations one kind of a message holds.
MaxObs == 2

(***************************************************************************)
(* simplify, which logparse.py:160-171 and test_jsat.py:388-423 call and   *)
(* ts.py does not define: written from section 4.3 of the specification    *)
(* (Canonicalization), on tryUnionWith of ts.py.                           *)
(***************************************************************************)
\* The members of a Union, or the assertion that failed.
MemberList(types) == [k |-> "list", types |-> types]

\* l without its element j.
Without(l, j) == SubSeq(l, 1, j - 1) \o SubSeq(l, j + 1, Len(l))

RECURSIVE simplifyScan(_, _, _)
\* The pairwise scan of a Union's members: member i absorbs every later
\* member j that tryUnionWith merges with it; the members absorbed are left
\* out of the result.
simplifyScan(types, i, j) ==
    IF i > Len(types) THEN MemberList(types)
    ELSE IF j > Len(types) THEN simplifyScan(types, i + 1, i + 2)
    ELSE LET r == tryUnionWith(types[i], types[j]) IN
         IF IsError(r) THEN r
         ELSE IF r = None THEN simplifyScan(types, i, j + 1)
         ELSE simplifyScan(Without([types EXCEPT ![i] = r], j), i, j)

RECURSIVE simplify(_)
\* t.simplify(): the property types of an Object, the element type of an
\* Array and the members of a Union are simplified, then the members of a
\* Union are scanned; a Union of one member is that member.
simplify(t) ==
    IF t.k = "object"
    THEN LET types == [i \in 1..Len(t.types) |-> simplify(t.types[i].type)] IN
         IF \E i \in 1..Len(types) : IsError(types[i])
         THEN types[CHOOSE i \in 1..Len(types) :
                       IsError(types[i]) /\ \A h \in 1..(i - 1) : ~IsError(types[h])]
         ELSE ObjectType([i \in 1..Len(types) |->
                             JSPropertyType(t.types[i].name, types[i], t.types[i].optional)])
    ELSE IF t.k = "array"
    THEN LET e == simplify(t.elementType) IN IF IsError(e) THEN e ELSE ArrayType(e)
    ELSE IF t.k = "union"
    THEN LET types == [i \in 1..Len(t.types) |-> simplify(t.types[i])] IN
         IF \E i \in 1..Len(types) : IsError(types[i])
         THEN types[CHOOSE i \in 1..Len(types) :
                       IsError(types[i]) /\ \A h \in 1..(i - 1) : ~IsError(types[h])]
         ELSE LET r == simplifyScan(types, 1, 2) IN
              IF IsError(r) THEN r
              ELSE IF Len(r.types) = 1 THEN r.types[1]
              ELSE UnionType(r.types)
    ELSE t

\* The types that are simplified: the types of the type grammar, and the
\* types of test_simplify (test_jsat.py:397-418).
ObjC == ObjectType(<<JSPropertyType(StrName(<<"C">>), AnyType, FALSE)>>)

ObjectsABC == p_JSType_union(p_JSType_union(ObjA, ObjAB), ObjC)

SimplifyTypes ==
    ParsedTypes
    \cup {ObjectsABC,
          UnionType(<<Num>> \o ObjectsABC.types),
          p_JSType_union(Num, ObjC),
          ArrayType(p_JSType_union(ArrayType(p_JSType_union(ObjA, ObjAB)), Num)),
          ObjectType(<<JSPropertyType(StrName(<<"C">>), p_JSType_union(ObjA, ObjAB), FALSE)>>),
          p_JSType_union(Str, p_JSType_union(Num, AnyType)),
          p_JSType_union(p_JSType_union(Str, Num), AnyType)}

(***************************************************************************)
(* The declaration store of actor_decls.py.  A dict is the sequence of its *)
(* items in insertion order; a method gives the value the object has after *)
(* the call and what the call returned or raised.                          *)
(***************************************************************************)
Loc(filename, lineno) == [filename |-> filename, lineno |-> lineno]

\* ActorError(loc, msg) for the messages that cite a name and the location
\* of an earlier declaration: f"{msg} {name}. Previous was at {loc0}".
ActorErrorAt(loc, msg, name, loc0) ==
    [k |-> "ActorError", loc |-> loc, msg |-> msg, name |-> name, loc0 |-> loc0]

Item(key, value) == [key |-> key, value |-> value]

\* d.keys()
Keys(d) == {d[i].key : i \in 1..Len(d)}

\* d[key]
Lookup(d, key) == d[CHOOSE i \in 1..Len(d) : d[i].key = key].value

\* d[key] = value
Store(d, key, value) ==
    IF key \in Keys(d)
    THEN [i \in 1..Len(d) |-> IF d[i].key = key THEN Item(key, value) ELSE d[i]]
    ELSE Append(d, Item(key, value))

\* messageNameRe.fullmatch(name): an identifier character that is no digit,
\* then identifier characters, "-" or ":".
messageNameRe(name) ==
    /\ Len(name) > 0
    /\ IsIdChar(name[1])
    /\ ~IsDigit(name[1])
    /\ \A i \in 2..Len(name) : IsIdChar(name[i]) \/ name[i] \in {"-", ":"}

\* MessageTypes.__init__
MessageTypes(loc, types) ==
    IF ~(0 < Len(types) /\ Len(types) <= 2) THEN AssertionError(356)
    ELSE IF Len(types) = 1 /\ types[1] = None THEN AssertionError(360)
    ELSE IF Len(types) = 2 /\ types[1] = None /\ types[2] = None THEN AssertionError(362)
    ELSE [k |-> "MessageTypes", loc |-> loc, types |-> types]

\* ActorDecl.__init__
ActorDecl(loc) == [k |-> "ActorDecl", loc |-> loc, messages |-> << >>]

\* ActorDecl.addMessage that replaces an earlier registration of the name
\* and returns True.
ActorDecl_addMessageReplaces(self, loc, messageName, t) ==
    [self |-> [self EXCEPT !.messages = Store(@, messageName, MessageTypes(loc, t))],
     ret |-> TRUE, raised |-> None]

\* ActorDecl.addMessage: the declaration after the call, what is returned,
\* and the assertion that fails.
ActorDecl_addMessage(self, loc, messageName, t) ==
    IF messageName \in Keys(self.messages)
    THEN [self |-> self, ret |-> FALSE, raised |-> None]
    ELSE IF ~messageNameRe(messageName)
    THEN [self |-> self, ret |-> FALSE, raised |-> AssertionError(297)]
    ELSE IF IsError(MessageTypes(loc, t))
    THEN [self |-> self, ret |-> FALSE, raised |-> MessageTypes(loc, t)]
    ELSE [self |-> [self EXCEPT !.messages = Store(@, messageName, MessageTypes(loc, t))],
          ret |-> TRUE, raised |-> None]

\* ActorDecl.existingMessageLoc
existingMessageLoc(self, messageName) == Lookup(self.messages, messageName).loc

\* ActorDecls.addActor that lets a later declaration replace an earlier one.
addActorReplaces(actors, actorName, actorDecl) ==
    [actors |-> Store(actors, actorName, actorDecl), raised |-> None]

\* ActorDecls.addActor: self.actors after the call, and what is raised.
addActor(actors, actorName, actorDecl) ==
    IF actorName \in Keys(actors)
    THEN [actors |-> actors,
          raised |-> ActorErrorAt(actorDecl.loc, "Multiple declarations of actor",
                                  actorName, Lookup(actors, actorName).loc)]
    ELSE IF ~identifierRe(actorName) THEN [actors |-> actors, raised |-> AssertionError(107)]
    ELSE [actors |-> Store(actors, actorName, actorDecl), raised |-> None]

RECURSIVE addActorsFrom(_, _, _)
\* ActorDecls.addActors: "for a, d in decls.actors.items()" from item i on.
addActorsFrom(actors, decls, i) ==
    IF i > Len(decls) THEN [actors |-> actors, raised |-> None]
    ELSE LET r == addActor(actors, decls[i].key, decls[i].value) IN
         IF r.raised # None THEN r ELSE addActorsFrom(r.actors, decls, i + 1)

addActors(actors, decls) == addActorsFrom(actors, decls, 1)

\* ActorDecls.addMessage: self.actors after the call, what actor.addMessage
\* returned, and what is raised.
addMessage(actors, loc, actorName, messageName, t) ==
    IF actorName \notin Keys(actors)
    THEN [actors |-> actors, ret |-> FALSE, raised |-> AssertionError(122)]
    ELSE LET actor == Lookup(actors, actorName)
             r == ActorDecl_addMessage(actor, loc, messageName, t)
         IN  IF r.raised # None THEN [actors |-> actors, ret |-> FALSE, raised |-> r.raised]
             ELSE IF ~r.ret
             THEN [actors |-> actors, ret |-> FALSE,
                   raised |-> ActorErrorAt(loc, "Multiple declarations of message",
                                           <<messageName, actorName>>,
                                           existingMessageLoc(actor, messageName))]
             ELSE [actors |-> Store(actors, actorName, r.self), ret |-> TRUE, raised |-> None]

\* The names that are registered: identifiers, and names that are none.
StoreActorNames == {<<"A">>, <<"B">>, <<"3", "A">>}

StoreMessageNames == {<<"M">>, <<"-", "M">>}

\* Loc("test", lineno) of the declarations.
Locs == {Loc("test", 2), Loc("test", 3)}

\* The kind slots of a registered message: a message, a query.
KindSlots == {<<AnyType>>, <<AnyType, None>>}

\* The stores that addActors is given: actors added to a new store.
DeclStores ==
    {<< >>}
    \cup {addActor(<< >>, a, ActorDecl(Loc("test", 3))).actors : a \in {<<"A">>, <<"B">>}}
    \cup {addActor(addActor(<< >>, a, ActorDecl(Loc("test", 3))).actors,
                    b, ActorDecl(Loc("test", 3))).actors :
              <<a, b>> \in {<< <<"A">>, <<"B">> >>, << <<"B">>, <<"A">> >>}}

\* A call of a method of the store, with its arguments.
Call(method, loc, actorName, messageName, t, decls) ==
    [method |-> method, loc |-> loc, actorName |-> actorName,
     messageName |-> messageName, t |-> t, decls |-> decls]

NoCall == Call("init", None, << >>, << >>, << >>, << >>)

(***************************************************************************)
(* The grammar of actor declarations of ts_parse.py.  The action of a rule *)
(* runs when the last token of the rule has been read, so that the errors  *)
(* of a declaration come in the order of the text.                         *)
(***************************************************************************)
\* The parser on the tokens of a file: self.currFilename and the tokens.
Parser(toks, filename) == [toks |-> toks, currFilename |-> filename]

\* Parser.locFromTok, for token i.
locFromTok(self, i) == Loc(self.currFilename, self.toks[i].lineno)

\* ActorError(loc, msg) of p_ActorDecl and p_MessageDecl for a name that is
\* not valid, and of p_MessageType and p_TopLevelActor.
NameError(loc, msg, name) == ActorErrorAt(loc, msg, name, None)

\* p_ActorOrMessageName
p_ActorOrMessageName(self, i) ==
    IF TokenType(self.toks, i) \in {"ID", "STRING_SINGLE", "STRING_DOUBLE"}
    THEN Parsed([loc |-> locFromTok(self, i), name |-> self.toks[i].value], i + 1)
    ELSE SyntaxError

\* ActorError(loc, 'Message type must have a non-"never" type to either the
\* left or right of the arrow')
NeverNeverError(loc) == NameError(loc, "Message type must have a non-never type", << >>)

\* The arrow form with the two sides exchanged in the kind slots.
p_MessageType_arrowSwapped(t1, t2, loc) ==
    IF t1 = NeverType /\ t2 = NeverType
    THEN [types |-> << >>, raised |-> NeverNeverError(loc)]
    ELSE IF t1 = NeverType THEN [types |-> <<t2, None>>, raised |-> None]
    ELSE IF t2 = NeverType THEN [types |-> <<None, t1>>, raised |-> None]
    ELSE [types |-> <<t2, t1>>, raised |-> None]

\* p_MessageType, '(' ID ':' JSType ')' ARROW JSType: the kind slots for the
\* types t1 and t2 of the two sides, or the error raised.
p_MessageType_arrow(t1, t2, loc) ==
    IF t1 = NeverType
    THEN IF t2 = NeverType
         THEN [types |-> << >>, raised |-> NeverNeverError(loc)]
         ELSE [types |-> <<None, t2>>, raised |-> None]
    ELSE IF t2 = NeverType THEN [types |-> <<t1, None>>, raised |-> None]
    ELSE [types |-> <<t1, t2>>, raised |-> None]

\* p_MessageType, the rule JSType: the action on the parsed type p1.
p_MessageType_single(p1) == IF ~p1.ok THEN p1 ELSE Parsed(<<p1.v>>, p1.i)

\* p_MessageType, the rule '(' ID ':' JSType ')' ARROW JSType: the action on
\* the parsed types p4 and p7.
p_MessageType_reduce(self, i, p4, p7) ==
    IF ~p7.ok THEN p7
    ELSE LET r == p_MessageType_arrow(p4.v, p7.v, locFromTok(self, i))
         IN  IF r.raised # None THEN Failed(r.raised) ELSE Parsed(r.types, p7.i)

\* p_MessageType, the rule '(' ID ':' JSType ')' ARROW JSType from the type
\* p4 on.
p_MessageType_afterParam(self, i, p4) ==
    IF ~p4.ok THEN p4
    ELSE IF TokenType(self.toks, p4.i) # ")" THEN SyntaxError
    ELSE IF TokenType(self.toks, p4.i + 1) # "ARROW" THEN SyntaxError
    ELSE p_MessageType_reduce(self, i, p4, p_JSType(self.toks, p4.i + 2))

\* p_MessageType
p_MessageType(self, i) ==
    IF TokenType(self.toks, i) = "(" /\ TokenType(self.toks, i + 1) = "ID"
    THEN IF TokenType(self.toks, i + 2) # ":" THEN SyntaxError
         ELSE p_MessageType_afterParam(self, i, p_JSType(self.toks, i + 3))
    ELSE p_MessageType_single(p_JSType(self.toks, i))

\* p_MessageDecl: the action on the parsed name p1 and type p3.
p_MessageDecl_reduce(p1, p3) ==
    IF ~p3.ok THEN p3
    ELSE IF ~messageNameRe(p1.v.name)
    THEN Failed(NameError(p1.v.loc, "Message name should be a valid identifier",
                          p1.v.name))
    ELSE Parsed([loc |-> p1.v.loc, messageName |-> p1.v.name, t |-> p3.v], p3.i)

\* p_MessageDecl from the name p1 on.
p_MessageDecl_afterName(self, p1) ==
    IF ~p1.ok THEN p1
    ELSE IF TokenType(self.toks, p1.i) # ":" THEN SyntaxError
    ELSE p_MessageDecl_reduce(p1, p_MessageType(self, p1.i + 1))

\* p_MessageDecl
p_MessageDecl(self, i) == p_MessageDecl_afterName(self, p_ActorOrMessageName(self, i))

\* p_MessageDeclsInner that passes on a duplicate as found at the
\* declaration that follows it.
p_MessageDeclsInner_addRelocates(actorDecl, newDecl) ==
    IF actorDecl.k # "ActorDecl" THEN Parsed([actorDecl EXCEPT !.loc = newDecl.loc], 0)
    ELSE LET r == ActorDecl_addMessage(actorDecl, newDecl.loc, newDecl.messageName,
                                       newDecl.t)
         IN  IF r.raised # None THEN Failed(r.raised)
             ELSE IF r.ret THEN Parsed(r.self, 0)
             ELSE Parsed([k |-> "list", loc |-> newDecl.loc,
                          messageName |-> newDecl.messageName,
                          loc0 |-> existingMessageLoc(actorDecl, newDecl.messageName)], 0)

\* p_MessageDeclsInner, the action for one MessageDecl: the ActorDecl with
\* the message added, or [loc, messageName, loc0] of a duplicate, which is
\* passed on.
p_MessageDeclsInner_add(actorDecl, newDecl) ==
    IF actorDecl.k # "ActorDecl" THEN Parsed(actorDecl, 0)
    ELSE LET r == ActorDecl_addMessage(actorDecl, newDecl.loc, newDecl.messageName,
                                       newDecl.t)
         IN  IF r.raised # None THEN Failed(r.raised)
             ELSE IF r.ret THEN Parsed(r.self, 0)
             ELSE Parsed([k |-> "list", loc |-> newDecl.loc,
                          messageName |-> newDecl.messageName,
                          loc0 |-> existingMessageLoc(actorDecl, newDecl.messageName)], 0)

\* p_PropertySeparator
p_PropertySeparator(toks, i) == TokenType(toks, i) \in {",", ";"}

RECURSIVE p_MessageDeclsInner(_, _, _)
\* p_MessageDeclsInner from the declaration p3 on, p0 being the action's
\* result for p3.
p_MessageDeclsInner_afterDecl(self, p3, p0) ==
    IF ~p0.ok THEN p0
    ELSE IF TokenType(self.toks, p3.i) = "}" THEN Parsed(p0.v, p3.i)
    ELSE IF ~p_PropertySeparator(self.toks, p3.i) THEN SyntaxError
    ELSE IF TokenType(self.toks, p3.i + 1) = "}" THEN Parsed(p0.v, p3.i + 1)
    ELSE p_MessageDeclsInner(self, p3.i + 1, p0.v)

\* p_MessageDeclsInner on the parsed declaration p3.
p_MessageDeclsInner_reduce(self, p3, actorDecl) ==
    IF ~p3.ok THEN p3
    ELSE p_MessageDeclsInner_afterDecl(self, p3, p_MessageDeclsInner_add(actorDecl, p3.v))

\* p_MessageDecls, p_MessageDeclsInner: the declarations from token i on, up
\* to the '}' of the actor, added to actorDecl.
p_MessageDeclsInner(self, i, actorDecl) ==
    p_MessageDeclsInner_reduce(self, p_MessageDecl(self, i), actorDecl)

\* p_ActorDecl: the action on the parsed name p1 and declarations p4.
p_ActorDecl_reduce(p1, p4) ==
    IF ~p4.ok THEN p4
    ELSE IF ~identifierRe(p1.v.name)
    THEN Failed(NameError(p1.v.loc, "Actor name should be a valid identifier",
                          p1.v.name))
    ELSE IF p4.v.k = "ActorDecl"
    THEN Parsed([actorName |-> p1.v.name,
                 actorDecl |-> [p4.v EXCEPT !.loc = p1.v.loc]], p4.i + 1)
    ELSE Failed(ActorErrorAt(p4.v.loc, "Multiple declarations of message",
                             <<p4.v.messageName, p1.v.name>>, p4.v.loc0))

\* p_ActorDecl from the name p1 on.
p_ActorDecl_afterName(self, p1) ==
    IF ~p1.ok THEN p1
    ELSE IF TokenType(self.toks, p1.i) # ":" THEN SyntaxError
    ELSE IF TokenType(self.toks, p1.i + 1) # "{" THEN SyntaxError
    ELSE p_ActorDecl_reduce(p1, p_MessageDeclsInner(self, p1.i + 2,
                                                    ActorDecl(Loc("<??>", 0))))

\* p_ActorDecl
p_ActorDecl(self, i) == p_ActorDecl_afterName(self, p_ActorOrMessageName(self, i))

RECURSIVE p_ActorDeclsInner(_, _, _)
\* p_ActorDeclsInner on the parsed actor p3: addActorL, then the actors that
\* follow.
p_ActorDeclsInner_reduce(self, p3, actors) ==
    IF ~p3.ok THEN p3
    ELSE LET r == addActor(actors, p3.v.actorName, p3.v.actorDecl) IN
         IF r.raised # None THEN Failed(r.raised)
         ELSE IF TokenType(self.toks, p3.i) = "}" THEN Parsed(r.actors, p3.i)
         ELSE IF ~p_PropertySeparator(self.toks, p3.i) THEN SyntaxError
         ELSE IF TokenType(self.toks, p3.i + 1) = "}" THEN Parsed(r.actors, p3.i + 1)
         ELSE p_ActorDeclsInner(self, p3.i + 1, r.actors)

\* p_ActorDecls, p_ActorDeclsInner: the actors from token i on, up to the
\* '}' of the file, added to actors with addActorL.
p_ActorDeclsInner(self, i, actors) ==
    p_ActorDeclsInner_reduce(self, p_ActorDecl(self, i), actors)

\* p_TopLevelActor: the action on the parsed actors p5.
p_TopLevelActor_reduce(self, p5) ==
    IF ~p5.ok THEN p5
    ELSE IF TokenType(self.toks, p5.i) # "}" THEN SyntaxError
    ELSE IF TokenType(self.toks, p5.i + 1) # ";" THEN SyntaxError
    ELSE IF self.toks[1].value # <<"t", "y", "p", "e">>
    THEN Failed(NameError(locFromTok(self, 1), "Expected type", self.toks[1].value))
    ELSE IF self.toks[2].value
                # <<"M", "e", "s", "s", "a", "g", "e", "T", "y", "p", "e", "s">>
    THEN Failed(NameError(locFromTok(self, 2), "Expected MessageTypes",
                          self.toks[2].value))
    ELSE Parsed(p5.v, p5.i + 2)

\* p_TopLevelActor
p_TopLevelActor(self) ==
    IF \/ TokenType(self.toks, 1) # "ID" \/ TokenType(self.toks, 2) # "ID"
       \/ TokenType(self.toks, 3) # "=" \/ TokenType(self.toks, 4) # "{"
    THEN SyntaxError
    ELSE p_TopLevelActor_reduce(self, p_ActorDeclsInner(self, 5, << >>))

\* p_TopLevelDecls: the end of the file after the declaration p1.
p_TopLevelDecls_reduce(self, p1) ==
    IF ~p1.ok THEN p1
    ELSE IF TokenType(self.toks, p1.i) = "$end" THEN p1
    ELSE IF TokenType(self.toks, p1.i) = ";" /\ TokenType(self.toks, p1.i + 1) = "$end"
    THEN p1
    ELSE SyntaxError

\* p_TopLevelDecls
p_TopLevelDecls(self) == p_TopLevelDecls_reduce(self, p_TopLevelActor(self))

\* ActorDeclsParser.parse(s, filename): the store of the file, or the error.
parseDecls(s, filename) ==
    LET l == lex(s, 1, 1) IN
    IF l.k = "ActorError" THEN Failed(l) ELSE p_TopLevelDecls(Parser(l.toks, filename))

\* The loop body of ts_to_json.parseFiles: addActors on the declarations of
\* the file, unless parsing the file raised.
parseFiles(actorDecls, newDecls) ==
    IF newDecls.ok THEN addActors(actorDecls, newDecls.v)
    ELSE [actors |-> actorDecls, raised |-> newDecls.v]

(***************************************************************************)
(* The declaration files that are parsed, written as the tests of          *)
(* ts_parse.py write them (ParseActorDeclsTests): the first actor is on    *)
(* line 2, and a second actor or message on line 3.                        *)
(***************************************************************************)
\* A name as it is written: bare, or between single or double quotes.
Quotes == {<< >>, <<"'">>, <<"\"">>}

WrittenName(q, name) == q \o name \o q

\* The actor names of the tests: identifiers, and the names of badActorName.
DeclActorNames == {<<"A">>, <<"B">>}

BadActorNames == {<<"A", " ", "B">>, <<"3", "A">>, <<"A", ":", "B">>, <<"A", "-", "B">>}

\* The message names of the tests, and the names of badMessageName.
DeclMessageNames == {<<"M">>, <<"M", "1", ":", "-", "m">>}

BadMessageNames == {<<"M", " ">>, <<"3", "M">>, <<"-", "M">>, <<":", "M">>}

\* A name is written bare only when it is one ID token.
WrittenNames(names) ==
    {w \in {<<q, n>> : q \in Quotes, n \in names} : w[1] = << >> => identifierRe(w[2])}

\* The types on the sides of an arrow, as text.
SideTexts == {<<"n", "e", "v", "e", "r">>, <<"a", "n", "y">>, <<"s", "t", "r", "i", "n", "g">>, <<"{", "A", ":", " ", "a", "n", "y", "}">>}

\* "(_: T1) => T2"
ArrowText(s1, s2) == <<"(", "_", ":", " ">> \o s1 \o <<")", " ", "=", ">", " ">> \o s2

\* "name: type"
MessageText(w, typeText) == WrittenName(w[1], w[2]) \o <<":", " ">> \o typeText

\* "name: { messages }"
ActorText(w, messages) ==
    WrittenName(w[1], w[2]) \o <<":", " ", "{", " ">> \o messages \o <<" ", "}">>

\* "type MessageTypes =\n { actors; };"
FileText(actors) ==
    <<"t", "y", "p", "e", " ", "M", "e", "s", "s", "a", "g", "e", "T", "y", "p", "e", "s", " ", "=", "\n", " ", "{", " ">> \o actors \o <<";", " ", "}", ";">>

\* One actor with one message, with every way to write the two names and
\* names that are not valid.
NameFiles ==
    {FileText(ActorText(a, MessageText(m, <<"a", "n", "y">>))) :
        a \in WrittenNames(DeclActorNames \cup BadActorNames),
        m \in WrittenNames({<<"M">>})}
    \cup {FileText(ActorText(a, MessageText(m, <<"a", "n", "y">>))) :
        a \in WrittenNames({<<"A">>} \cup BadActorNames),
        m \in WrittenNames(DeclMessageNames \cup BadMessageNames)}

\* Actor A with the message M of type ty.
TypeFile(ty) == FileText(ActorText(<<<< >>, <<"A">>>>, MessageText(<<<< >>, <<"M">>>>, ty)))

\* One message of every form of type.
TypeFiles ==
    {TypeFile(ty) :
        ty \in SideTexts \cup {ArrowText(s1, s2) : s1 \in SideTexts, s2 \in SideTexts}}

\* Two actors, the second on line 3.
TwoActors(a1, a2) ==
    FileText(ActorText(a1, MessageText(<<<< >>, <<"M">>>>, <<"a", "n", "y">>))
             \o <<";", "\n", " ">>
             \o ActorText(a2, MessageText(<<<< >>, <<"M">>>>, <<"a", "n", "y">>)))

ActorFiles ==
    {TwoActors(a1, a2) : a1 \in WrittenNames(DeclActorNames),
                         a2 \in WrittenNames(DeclActorNames)}

\* One actor with two messages, the second on line 3, and with a third
\* message after them.
TwoMessages(m1, ty1, m2, ty2, more) ==
    FileText(ActorText(<<<< >>, <<"A">>>>,
                       MessageText(m1, ty1) \o <<"\n", " ", ",", " ">>
                       \o MessageText(m2, ty2) \o more))

\* A third message on line 4 that declares M again.
MoreM == <<";", "\n", " ", "M", ":", " ", "s", "t", "r", "i", "n", "g">>

\* A third message on line 4 that declares N again, and a fourth on line 5
\* that declares M again.
MoreNM ==
    <<";", "\n", " ", "'", "N", "'", ":", " ", "a", "n", "y", ",", "\n", " ", "M", ":", " ", "a", "n", "y", ";">>

\* What follows the two messages: nothing, a third message, a third message
\* and a separator, messages that are declared already.
MoreMessages ==
    {<< >>, <<";", " ", "N", ":", " ", "a", "n", "y">>,
     <<";", " ", "P", ":", " ", "a", "n", "y", ";">>, MoreM, MoreNM}

MessageFiles ==
    {TwoMessages(m1, ty1, m2, ty2, more) :
        m1 \in WrittenNames({<<"M">>}), m2 \in WrittenNames({<<"M">>, <<"N">>}),
        ty1 \in {<<"a", "n", "y">>, ArrowText(<<"a", "n", "y">>, <<"a", "n", "y">>)},
        ty2 \in {<<"a", "n", "y">>, ArrowText(<<"n", "e", "v", "e", "r">>, <<"a", "n", "y">>)},
        more \in MoreMessages}

\* Files that do not start with "type MessageTypes", and files with
\* comments.
HeaderFiles ==
    {<<"/", "*", "\n", " ", "o", "k", "*", "/", "\n", "e", " ", "f", " ", "=", " ", "{", " ", "a", ":", " ", "{", " ", "m", ":", " ", "a", "n", "y", " ", "}", ";", " ", "}", ";">>,
     <<"t", "y", "p", "e", "\n", " ", "e", " ", "=", " ", "{", " ", "a", ":", " ", "{", " ", "m", ":", " ", "a", "n", "y", " ", "}", ";", " ", "}", ";">>,
     <<"\n", "\n", "1", "2", "3", "4">>,
     <<"t", "y", "p", "e", " ", "M", "e", "s", "s", "a", "g", "e", "T", "y", "p", "e", "s", " ", "=", " ", "/", "/", "o", "k", "\n", "{", " ", "B", ":", " ", "{", " ", "M", ":", " ", "n", "u", "m", "b", "e", "r", " ", "}", ",", " ", "A", ":", " ", "{", " ", "'", "M", "1", ":", "m", "_", "'", ":", " ", "u", "n", "d", "e", "f", "i", "n", "e", "d", " ", "}", ";", " ", "}", ";", ";">>}

DeclTexts == NameFiles \cup TypeFiles \cup ActorFiles \cup MessageFiles \cup HeaderFiles

(***************************************************************************)
(* The texts of objects with an integer property name, around the ends of  *)
(* the range of the signed 32 bit integers.  The integer is written as a   *)
(* sign, zeros, the digits of hi and the digit lo: its value is            *)
(* 10 * hi + lo, or the negative of it.                                    *)
(***************************************************************************)
\* The digits of 2147483647 before the last: 214748364.
HiMax == 2147483647 \div 10

His == {0, 1, 12, HiMax - 1, HiMax, HiMax + 1, 999999999, 2147483647}

Los == 0..9

Zeros == {<< >>, <<"0", "0">>}

\* "{-002147483648: any}"
IntegerText(negative, zeros, hi, lo) ==
    <<"{">> \o (IF negative THEN <<"-">> ELSE << >>) \o zeros
    \o (IF hi = 0 THEN << >> ELSE natStr(hi)) \o natStr(lo)
    \o <<":", " ", "a", "n", "y", "}">>

IntegerTexts ==
    {IntegerText(negative, zeros, hi, lo) :
        negative \in BOOLEAN, zeros \in Zeros, hi \in His, lo \in Los}

(***************************************************************************)
(* The state: the operands of a merge, the operation applied and its       *)
(* result; the actor and the observations of a message, per kind, and what *)
(* unify1 made of them; the text of a type; the declaration store, the     *)
(* last call of one of its methods, and what the call returned and raised. *)
(***************************************************************************)
VARIABLES t1, t2, op, res, args, folds, actor, kindTypes, unified, text, json,
          text2, ads, call, ret, raised, log, typeActors, actorSlots, newActors

vars == <<t1, t2, op, res, args, folds, actor, kindTypes, unified, text, json,
          text2, ads, call, ret, raised, log, typeActors, actorSlots, newActors>>

mergeVars == <<t1, t2, op, res, args, folds>>

logVars == <<log, typeActors, actorSlots, newActors>>

unifyVars == <<actor, kindTypes, unified, log, typeActors, actorSlots, newActors>>

textVars == <<text, json, text2>>

storeVars == <<ads, call, ret, raised>>

NoObservations == << << >>, << >>, << >>, << >> >>

InitMerge ==
    /\ op = "init"
    /\ res = None
    /\ args = None
    /\ folds = 0

\* lookAtActors: typeActors = {}, actors = {}
InitLog ==
    /\ log = << >>
    /\ typeActors = << >>
    /\ actorSlots = << >>
    /\ newActors = None

InitUnify ==
    /\ kindTypes = NoObservations
    /\ unified = None
    /\ InitLog

InitText ==
    /\ text = << >>
    /\ json = << >>
    /\ text2 = << >>

\* ActorDecls.__init__
InitStore ==
    /\ ads = << >>
    /\ call = NoCall
    /\ ret = FALSE
    /\ raised = None

Init ==
    /\ t1 \in ParsedTypes
    /\ t2 \in ParsedTypes
    /\ InitMerge
    /\ actor = "Conduits"
    /\ InitUnify
    /\ InitText
    /\ InitStore

\* A call of tryUnionWith(t1, t2), as the tests make it.
CallTryUnionWith ==
    /\ op = "init"
    /\ res' = tryUnionWith(t1, t2)
    /\ args' = tryUnionWithArgs(t1, t2)
    /\ op' = "tryUnionWith"
    /\ UNCHANGED <<t1, t2, folds>>
    /\ UNCHANGED unifyVars
    /\ UNCHANGED textVars
    /\ UNCHANGED storeVars

\* A call of unionWith(t1, t2).
CallUnionWith ==
    /\ op = "init"
    /\ res' = unionWith(t1, t2)
    /\ args' = tryUnionWithArgs(t1, t2)
    /\ op' = "unionWith"
    /\ UNCHANGED <<t1, t2, folds>>
    /\ UNCHANGED unifyVars
    /\ UNCHANGED textVars
    /\ UNCHANGED storeVars

\* unify1's loop: tCombined = unionWith(tCombined, t) goes on with the result
\* and the next observation.
Fold ==
    /\ op = "unionWith"
    /\ ~IsError(res)
    /\ folds < MaxFold
    /\ \E t \in FoldTypes :
          /\ t1' = res
          /\ t2' = t
    /\ op' = "init"
    /\ res' = None
    /\ args' = None
    /\ folds' = folds + 1
    /\ UNCHANGED unifyVars
    /\ UNCHANGED textVars
    /\ UNCHANGED storeVars

Next == CallTryUnionWith \/ CallUnionWith \/ Fold

Spec == Init /\ [][Next]_vars

(***************************************************************************)
(* The observations of one message and their unification.                  *)
(***************************************************************************)
InitObs ==
    /\ t1 = NeverType
    /\ t2 = NeverType
    /\ InitMerge
    /\ actor \in Actors
    /\ InitUnify
    /\ InitText
    /\ InitStore

\* lookAtActors, currTypes.append(ty): one more observation of a kind.
Observe ==
    /\ unified = None
    /\ \E kind \in 0..3, ty \in ObsTypes :
          /\ Len(kindTypes[kind + 1]) < MaxObs
          /\ kindTypes' = [kindTypes EXCEPT ![kind + 1] = Append(@, ty)]
    /\ UNCHANGED <<actor, unified>>
    /\ UNCHANGED logVars
    /\ UNCHANGED mergeVars
    /\ UNCHANGED textVars
    /\ UNCHANGED storeVars

\* ActorDecls.unify1(a, m, kindTypes, ...) on the observations of the message.
Unify1 ==
    /\ unified = None
    /\ unified' = unify1(actor, "M", kindTypes)
    /\ UNCHANGED <<actor, kindTypes>>
    /\ UNCHANGED logVars
    /\ UNCHANGED mergeVars
    /\ UNCHANGED textVars
    /\ UNCHANGED storeVars

NextObs == Observe \/ Unify1

SpecUnify == InitObs /\ [][NextObs]_vars

(***************************************************************************)
(* The rendering of a type and the parse of the text.                      *)
(***************************************************************************)
InitRender ==
    /\ t1 \in TextTypes
    /\ t2 = NeverType
    /\ InitMerge
    /\ actor = "Conduits"
    /\ InitUnify
    /\ InitText
    /\ InitStore

\* str(t1) and t1.jsonStr()
Render ==
    /\ op = "init"
    /\ text' = str(t1)
    /\ json' = jsonStr(t1)
    /\ op' = "str"
    /\ UNCHANGED <<t1, t2, res, args, folds, text2>>
    /\ UNCHANGED unifyVars
    /\ UNCHANGED storeVars

\* TestTypePrinting.check, parseAndCheck: t = parse(text), then str(t) when
\* the parse has not raised.
Check ==
    /\ op = "str"
    /\ res' = parse(text)
    /\ text2' = IF res'.k \in {"ActorError", "AssertionError"} THEN << >> ELSE str(res')
    /\ op' = "check"
    /\ UNCHANGED <<t1, t2, args, folds, text, json>>
    /\ UNCHANGED unifyVars
    /\ UNCHANGED storeVars

NextText == Render \/ Check

SpecText == InitRender /\ [][NextText]_vars

(***************************************************************************)
(* The parse of a text (TestTypePrinting.check, checkFail).                *)
(***************************************************************************)
InitParse ==
    /\ t1 = NeverType
    /\ t2 = NeverType
    /\ InitMerge
    /\ actor = "Conduits"
    /\ InitUnify
    /\ text \in IntegerTexts
    /\ json = << >>
    /\ text2 = << >>
    /\ InitStore

\* TypeParser.parse(text)
Parse ==
    /\ op = "init"
    /\ res' = parse(text)
    /\ op' = "parse"
    /\ UNCHANGED <<t1, t2, args, folds>>
    /\ UNCHANGED unifyVars
    /\ UNCHANGED textVars
    /\ UNCHANGED storeVars

NextParse == Parse

SpecParse == InitParse /\ [][NextParse]_vars

(***************************************************************************)
(* The simplification of a parsed type (lookAtActors, logparse.py:160-171).*)
(***************************************************************************)
InitSimplify ==
    /\ t1 \in SimplifyTypes
    /\ t2 = NeverType
    /\ InitMerge
    /\ actor = "Conduits"
    /\ InitUnify
    /\ InitText
    /\ InitStore

\* ty = ty.simplify()
Simplify ==
    /\ op = "init"
    /\ res' = simplify(t1)
    /\ op' = "simplify"
    /\ UNCHANGED <<t1, t2, args, folds>>
    /\ UNCHANGED unifyVars
    /\ UNCHANGED textVars
    /\ UNCHANGED storeVars

NextSimplify == Simplify

SpecSimplify == InitSimplify /\ [][NextSimplify]_vars

(***************************************************************************)
(* The store and the calls of its methods (MessageTests.test_actorDecls).  *)
(***************************************************************************)
InitDecls ==
    /\ t1 = NeverType
    /\ t2 = NeverType
    /\ InitMerge
    /\ actor = "Conduits"
    /\ InitUnify
    /\ InitText
    /\ InitStore

\* ads.addActor(actorName, ActorDecl(loc))
AddActor ==
    /\ call.method # "parseFiles"
    /\ \E actorName \in StoreActorNames, loc \in Locs :
          LET r == addActor(ads, actorName, ActorDecl(loc)) IN
          /\ call' = Call("addActor", loc, actorName, << >>, << >>, << >>)
          /\ ads' = r.actors
          /\ raised' = r.raised
    /\ ret' = FALSE
    /\ UNCHANGED mergeVars
    /\ UNCHANGED unifyVars
    /\ UNCHANGED textVars

\* ads.addMessage(loc, actorName, messageName, t)
AddMessage ==
    /\ call.method # "parseFiles"
    /\ \E loc \in Locs, actorName \in StoreActorNames,
          messageName \in StoreMessageNames, t \in KindSlots :
          LET r == addMessage(ads, loc, actorName, messageName, t) IN
          /\ call' = Call("addMessage", loc, actorName, messageName, t, << >>)
          /\ ads' = r.actors
          /\ ret' = r.ret
          /\ raised' = r.raised
    /\ UNCHANGED mergeVars
    /\ UNCHANGED unifyVars
    /\ UNCHANGED textVars

\* ads.addActors(ads2)
AddActors ==
    /\ call.method # "parseFiles"
    /\ \E decls \in DeclStores :
          LET r == addActors(ads, decls) IN
          /\ call' = Call("addActors", None, << >>, << >>, << >>, decls)
          /\ ads' = r.actors
          /\ raised' = r.raised
    /\ ret' = FALSE
    /\ UNCHANGED mergeVars
    /\ UNCHANGED unifyVars
    /\ UNCHANGED textVars

\* ts_to_json.parseFiles, for the first file: parser.parse(f.read(), filename),
\* then actorDecls.addActors(newDecls).
ParseFile ==
    /\ call.method = "init"
    /\ \E s \in DeclTexts :
          \E r \in {parseFiles(ads, parseDecls(s, "test"))} :
              /\ text' = s
              /\ call' = Call("parseFiles", None, << >>, << >>, << >>, << >>)
              /\ ads' = r.actors
              /\ raised' = r.raised
    /\ ret' = FALSE
    /\ UNCHANGED mergeVars
    /\ UNCHANGED unifyVars
    /\ UNCHANGED <<json, text2>>

NextStore == AddActor \/ AddMessage \/ AddActors \/ ParseFile

SpecStore == InitDecls /\ [][NextStore]_vars

(***************************************************************************)
(* Properties of the merge.                                                *)
(***************************************************************************)
\* C1: Any is absorbing for unionWith: with Any as either operand, whatever
\* the other operand is (a Union included), the result is Any.
C1_AnyAbsorbing ==
    op = "unionWith" /\ (t1 = AnyType \/ t2 = AnyType) => res = AnyType

\* C2: Never is an identity for unionWith: unionWith(Never, t) is t and
\* unionWith(t, Never) is t, whatever t is.
C2_NeverIdentity ==
    op = "unionWith" =>
        /\ t1 = NeverType => res = t2
        /\ t2 = NeverType => res = t1

\* Never on the left of a three-member union: the union comes back as it was.
C2_Witness ==
    /\ op = "unionWith"
    /\ t1 = NeverType
    /\ t2.k = "union"
    /\ Len(t2.types) = 3
    /\ res = t2

\* C3: unionWith is idempotent: the union of a type with an equal copy of
\* itself is that type, Objects with optional properties and Unions included.
C3_Idempotent ==
    op = "unionWith" /\ t1 = t2 => res = t1

\* C4: unionWith never fails: no assertion fails, it never returns None, and
\* its result is the new Union [t1, t2] exactly when tryUnionWith finds the
\* operands incompatible.
C4_NeverFails ==
    op = "unionWith" =>
        /\ ~IsError(res)
        /\ res # None
        /\ (res = UnionType(<<t1, t2>>)) <=> (tryUnionWith(t1, t2) = None)

PropNames(o) == {o.types[i].name : i \in 1..Len(o.types)}

PropNamed(o, n) == o.types[CHOOSE i \in 1..Len(o.types) : o.types[i].name = n]

Observed(kind) == Len(kindTypes[kind + 1]) > 0

\* C8: with a Message observation and an observation of Query, QueryResolve
\* or QueryReject, unify1 raises "has both message and query types", also
\* when there is a QueryReject and no QueryResolve observation.
C8_MessageAndQuery ==
    unified # None /\ Observed(0) /\ (Observed(1) \/ Observed(2) \/ Observed(3)) =>
        unified = Raised("has both message and query types")

\* Message and QueryReject observations, no QueryResolve: the message and
\* query error is the one raised.
C8_Witness ==
    /\ unified = Raised("has both message and query types")
    /\ Observed(0)
    /\ Observed(3)
    /\ ~Observed(2)

\* C9: with no Message observation, a QueryReject observation and no
\* QueryResolve observation, whatever Query holds, unify1 raises "has query
\* reject, but not query resolve type" and returns nothing.
C9_RejectWithoutResolve ==
    unified # None /\ ~Observed(0) /\ Observed(3) /\ ~Observed(2) =>
        unified = Raised("has query reject, but not query resolve type")

\* Query and QueryReject observations only.
C9_Witness ==
    /\ unified = Raised("has query reject, but not query resolve type")
    /\ ~Observed(0)
    /\ Observed(1)
    /\ Observed(3)
    /\ ~Observed(2)

\* C10: for a test actor, a message with a QueryReject observation and no
\* QueryResolve observation unifies: unify1 returns, with never as the
\* QueryResolve type.
C10_TestActorReject ==
    unified # None /\ actor \in TestActors /\ ~Observed(0) /\ Observed(3) /\ ~Observed(2) =>
        /\ unified.k = "returned"
        /\ unified.newTypes[2] = NeverType

RECURSIVE FoldLeft(_)
\* unionWith(... unionWith(unionWith(l[1], l[2]), l[3]) ..., l[n]), and None
\* for no observation.
FoldLeft(l) ==
    IF Len(l) = 0 THEN None
    ELSE IF Len(l) = 1 THEN l[1]
    ELSE unionWith(FoldLeft(SubSeq(l, 1, Len(l) - 1)), l[Len(l)])

\* C11: a unify1 that returns gives, with Message observations, the one slot
\* that is their left-to-right unionWith fold, and with none of them the two
\* slots [Query, QueryResolve], each the fold of the observations of its kind
\* and unset for a kind without observations; the result is the same whatever
\* the QueryReject observations are.
C11_UnifyResult ==
    unified # None /\ unified.k = "returned" =>
        IF Observed(0)
        THEN unified.newTypes = <<FoldLeft(kindTypes[1])>>
        ELSE unified.newTypes = <<FoldLeft(kindTypes[2]), FoldLeft(kindTypes[3])>>

\* Two different Query observations, and QueryResolve and QueryReject
\* observations: two slots, the first a union of the two Query observations.
C11_Witness ==
    /\ unified # None
    /\ unified.k = "returned"
    /\ ~Observed(0)
    /\ Len(kindTypes[2]) = 2
    /\ kindTypes[2][1] # kindTypes[2][2]
    /\ Observed(2)
    /\ Observed(3)
    /\ Len(unified.newTypes) = 2
    /\ unified.newTypes[1] = UnionType(kindTypes[2])

\* C17: an object with the integer property name i parses iff
\* -2147483648 <= i <= 2147483647, to the object with the int name i; below
\* the range the parse raises "too small" and above it "too large", and gives
\* no type.
C17_IntegerRange ==
    op = "parse" =>
       \A negative \in BOOLEAN, zeros \in Zeros, hi \in His, lo \in Los :
          text = IntegerText(negative, zeros, hi, lo) =>
             IF hi < HiMax \/ (hi = HiMax /\ lo <= (IF negative THEN 8 ELSE 7))
             THEN res = ObjectType(<<JSPropertyType(
                           IntName(IF negative THEN (0 - 10 * hi) - lo ELSE 10 * hi + lo),
                           AnyType, FALSE)>>)
             ELSE IF negative THEN res = ActorError("Integer is too small")
             ELSE res = ActorError("Integer is too large")

\* "{-2147483648: any}" has been parsed to the object with that name.
C17_Witness ==
    /\ op = "parse"
    /\ text = IntegerText(TRUE, << >>, HiMax, 8)
    /\ res = ObjectType(<<JSPropertyType(IntName((0 - 2147483647) - 1), AnyType, FALSE)>>)

\* The order of the property names of an Object: a string name before an
\* integer name, strings by their characters, integers by their value.
nameBefore(a, b) ==
    \/ ~a.isInt /\ b.isInt
    \/ ~a.isInt /\ ~b.isInt /\ StrLt(a.s, b.s)
    \/ a.isInt /\ b.isInt /\ a.i < b.i

RECURSIVE strictlySorted(_)
\* The Object invariant, at every depth of t.
strictlySorted(t) ==
    IF t.k = "object"
    THEN /\ \A i \in 1..Len(t.types), j \in 1..Len(t.types) :
               i < j => nameBefore(t.types[i].name, t.types[j].name)
         /\ \A i \in 1..Len(t.types) : strictlySorted(t.types[i].type)
    ELSE IF t.k = "array" THEN strictlySorted(t.elementType)
    ELSE IF t.k = "union" THEN \A i \in 1..Len(t.types) : strictlySorted(t.types[i])
    ELSE TRUE

\* C20: tryUnionWith and unionWith (objectAbsorb) of two Objects whose
\* property lists are strictly sorted at every depth, with no name twice,
\* give an Object whose property lists are strictly sorted at every depth,
\* with no name twice.
C20_ObjectInvariant ==
    /\ op \in {"tryUnionWith", "unionWith"}
    /\ t1.k = "object" /\ t2.k = "object"
    /\ strictlySorted(t1) /\ strictlySorted(t2)
    /\ ~IsError(res)
    => res.k = "object" /\ strictlySorted(res)

\* An Object with a string and an integer name has been merged with an
\* Object with a string name between them: the result has the three.
C20_Witness ==
    /\ op = "unionWith"
    /\ t1.k = "object" /\ t2.k = "object"
    /\ res.k = "object"
    /\ Len(res.types) = 3
    /\ Len(t1.types) = 2
    /\ t1.types[2].name.isInt
    /\ Len(t2.types) = 1
    /\ res.types[2].name = t2.types[1].name

\* Two distinct members of a Union are compatible: tryUnionWith merges them.
compatibleMembers(t) ==
    /\ t.k = "union"
    /\ \E i \in 1..Len(t.types), j \in 1..Len(t.types) :
          /\ i # j
          /\ tryUnionWith(t.types[i], t.types[j]) # None
          /\ ~IsError(tryUnionWith(t.types[i], t.types[j]))

\* C18: the fold of parsed observations with unionWith, from never, gives a
\* result in which no two distinct members of a Union are compatible under
\* tryUnionWith: here for the first observation of the fold.
C18_NoCompatibleMembers ==
    op = "unionWith" /\ folds = 0 /\ t1 = NeverType =>
       ~IsError(res) /\ ~compatibleMembers(res)

RECURSIVE canonical(_)
\* At no depth of t does a Union hold members i < j that tryUnionWith
\* merges.
canonical(t) ==
    IF t.k = "object" THEN \A i \in 1..Len(t.types) : canonical(t.types[i].type)
    ELSE IF t.k = "array" THEN canonical(t.elementType)
    ELSE IF t.k = "union"
    THEN /\ \A i \in 1..Len(t.types) : canonical(t.types[i])
         /\ \A i \in 1..Len(t.types), j \in 1..Len(t.types) :
               i < j => tryUnionWith(t.types[i], t.types[j]) = None
    ELSE TRUE

\* C19: the result of simplify holds, at no depth, a Union with members
\* i < j that tryUnionWith merges; '{A: any} | {A: any; B: any} | {C: any}'
\* simplifies to '{A: any; B?: any} | {C: any}'.
C19_SimplifyCanonical ==
    op = "simplify" =>
       /\ ~IsError(res)
       /\ canonical(res)
       /\ t1 = ObjectsABC =>
             res = UnionType(<<ObjectType(<<JSPropertyType(NameA, AnyType, FALSE),
                                           JSPropertyType(NameB, AnyType, TRUE)>>), ObjC>>)

(***************************************************************************)
(* Properties of the declaration store.                                    *)
(***************************************************************************)
\* C12: a declaration of an actor name that the store holds raises an error
\* located at the second declaration that cites the location of the first,
\* and leaves the store as it was, the name mapped to the first declaration:
\* for addActor, and for a file that declares the name on line 2 and again on
\* line 3, each time bare or between quotes of either kind.
C12_DuplicateActor ==
    [][/\ call'.method = "addActor" /\ call'.actorName \in Keys(ads) =>
            /\ raised' = ActorErrorAt(call'.loc, "Multiple declarations of actor",
                                      call'.actorName, Lookup(ads, call'.actorName).loc)
            /\ ads' = ads
       /\ call'.method = "parseFiles" =>
            \A a \in DeclActorNames, q1 \in Quotes, q2 \in Quotes :
               text' = TwoActors(<<q1, a>>, <<q2, a>>) =>
                  /\ raised' = ActorErrorAt(Loc("test", 3), "Multiple declarations of actor",
                                            a, Loc("test", 2))
                  /\ ads' = ads]_vars

\* A second declaration of an actor, at another line than the first, which
\* has a message: the error raised is at the second line and cites the
\* first, and the store holds the first declaration and its message.
C12_Witness ==
    /\ call.method = "addActor"
    /\ raised # None
    /\ raised.k = "ActorError"
    /\ raised.loc = call.loc
    /\ raised.loc0 # call.loc
    /\ call.actorName \in Keys(ads)
    /\ Lookup(ads, call.actorName).loc = raised.loc0
    /\ Len(Lookup(ads, call.actorName).messages) > 0

\* C13: a message that is registered for an actor is registered again, with
\* any kind slots: ActorDecls.addMessage raises an error at the location of
\* the second registration that cites the location of the first, having got
\* False from ActorDecl.addMessage, and the store is as it was; a file that
\* declares a message of an actor on line 2 and again on line 3, with any
\* forms of type, raises the same error.
C13_DuplicateMessage ==
    [][/\ /\ call'.method = "addMessage"
          /\ call'.actorName \in Keys(ads)
          /\ call'.messageName \in Keys(Lookup(ads, call'.actorName).messages)
          => /\ ~ActorDecl_addMessage(Lookup(ads, call'.actorName), call'.loc,
                                      call'.messageName, call'.t).ret
             /\ ret' = FALSE
             /\ raised' = ActorErrorAt(call'.loc, "Multiple declarations of message",
                            <<call'.messageName, call'.actorName>>,
                            Lookup(Lookup(ads, call'.actorName).messages,
                                   call'.messageName).loc)
             /\ ads' = ads
       /\ call'.method = "parseFiles" =>
            \A q1 \in Quotes, q2 \in Quotes, ty1 \in SideTexts, ty2 \in SideTexts,
               ty3 \in SideTexts \ {<<"n", "e", "v", "e", "r">>} :
               text' \in {TwoMessages(<<q1, <<"M">>>>, y1, <<q2, <<"M">>>>, y2, more) :
                             y1 \in {ty1, ArrowText(ty1, ty3)},
                             y2 \in {ty2, ArrowText(ty2, ty3)},
                             more \in MoreMessages}
               => /\ raised' = ActorErrorAt(Loc("test", 3),
                                            "Multiple declarations of message",
                                            << <<"M">>, <<"A">> >>, Loc("test", 2))
                  /\ ads' = ads]_vars

\* A message registered as a message is registered again as a query, at
\* another line: the error is at the second line and cites the first, and
\* the store holds the first registration.
C13_Witness ==
    /\ call.method = "addMessage"
    /\ raised # None
    /\ raised.k = "ActorError"
    /\ raised.loc = call.loc
    /\ raised.loc0 # call.loc
    /\ call.t = <<AnyType, None>>
    /\ Lookup(Lookup(ads, call.actorName).messages, call.messageName)
          = MessageTypes(raised.loc0, <<AnyType>>)

\* C14: when addActors(decls) raises because an actor of decls is declared in
\* the receiving store, the receiving store holds the actors it held before
\* the call, and none of the other actors of decls.
C14_NoPartialStore ==
    [][call'.method = "addActors" /\ raised' # None => ads' = ads]_vars

\* The store that a file with the one message M of actor A gives, for the
\* kind slots of M.
StoreOfTypeFile(types) ==
    <<Item(<<"A">>, [k |-> "ActorDecl", loc |-> Loc("test", 2),
                     messages |-> <<Item(<<"M">>, MessageTypes(Loc("test", 2), types))>>])>>

\* The kind slot that a side of an arrow gives: unset for never.
SideSlot(s) == IF s = <<"n", "e", "v", "e", "r">> THEN None ELSE parse(s)

\* C15: a message declared as "(_: T1) => T2" is an error when T1 and T2 are
\* both never; else its kind slots are [unset, T2] when T1 is never, [T1,
\* unset] when T2 is never, and [T1, T2] otherwise; a message declared as "T"
\* has the one slot [T].
C15_ArrowSlots ==
    [][call'.method = "parseFiles" =>
          /\ \A s1 \in SideTexts, s2 \in SideTexts :
                text' = TypeFile(ArrowText(s1, s2)) =>
                   IF SideSlot(s1) = None /\ SideSlot(s2) = None
                   THEN /\ raised' # None
                        /\ raised' = NeverNeverError(Loc("test", 2))
                        /\ ads' = ads
                   ELSE /\ raised' = None
                        /\ ads' = StoreOfTypeFile(<<SideSlot(s1), SideSlot(s2)>>)
          /\ \A s \in SideTexts :
                text' = TypeFile(s) =>
                   /\ raised' = None
                   /\ ads' = StoreOfTypeFile(<<parse(s)>>)]_vars

\* "(_: never) => {A: any}" has been parsed: the message has no query type
\* and the object as its query resolve type.
C15_Witness ==
    /\ call.method = "parseFiles"
    /\ text = TypeFile(ArrowText(<<"n", "e", "v", "e", "r">>,
                                 <<"{", "A", ":", " ", "a", "n", "y", "}">>))
    /\ raised = None
    /\ Lookup(Lookup(ads, <<"A">>).messages, <<"M">>).types
          = <<None, ObjectType(<<JSPropertyType(NameA, AnyType, FALSE)>>)>>

\* C16: an actor name is accepted iff it is an identifier, and a message name
\* iff it starts as an identifier and goes on with identifier characters, "-"
\* or ":".  A name that is not accepted, given to addActor or addMessage or
\* written in a declaration file, raises an ActorError that holds the name and
\* the location of the declaration, and nothing is added.
C16_NameValidation ==
    [][/\ call'.method = "addActor" /\ call'.actorName \notin Keys(ads) =>
            IF identifierRe(call'.actorName)
            THEN raised' = None /\ call'.actorName \in Keys(ads')
            ELSE /\ raised' # None
                 /\ raised' = NameError(call'.loc, "Actor name should be a valid identifier",
                                        call'.actorName)
                 /\ ads' = ads
       /\ /\ call'.method = "addMessage"
          /\ call'.actorName \in Keys(ads)
          /\ call'.messageName \notin Keys(Lookup(ads, call'.actorName).messages)
          => IF messageNameRe(call'.messageName)
             THEN /\ raised' = None
                  /\ call'.messageName \in Keys(Lookup(ads', call'.actorName).messages)
             ELSE /\ raised' # None
                  /\ raised' = NameError(call'.loc,
                                         "Message name should be a valid identifier",
                                         call'.messageName)
                  /\ ads' = ads
       /\ call'.method = "parseFiles" =>
          \A a \in WrittenNames(DeclActorNames \cup BadActorNames),
             m \in WrittenNames(DeclMessageNames \cup BadMessageNames) :
            text' = FileText(ActorText(a, MessageText(m, <<"a", "n", "y">>)))
            => IF ~messageNameRe(m[2])
               THEN /\ raised' = NameError(Loc("test", 2),
                                           "Message name should be a valid identifier", m[2])
                    /\ ads' = ads
               ELSE IF ~identifierRe(a[2])
               THEN /\ raised' = NameError(Loc("test", 2),
                                           "Actor name should be a valid identifier", a[2])
                    /\ ads' = ads
               ELSE /\ raised' = None
                    /\ Keys(ads') = {a[2]}
                    /\ Keys(Lookup(ads', a[2]).messages) = {m[2]}]_vars

(***************************************************************************)
(* Properties of the renderings and of the parse.                          *)
(***************************************************************************)
RECURSIVE sorted(_)
\* Python's sorted(l) with the ordering of the types: a stable sort.
sorted(l) ==
    IF Len(l) = 0 THEN << >>
    ELSE LET front == sorted(SubSeq(l, 1, Len(l) - 1))
             x == l[Len(l)]
             n == Cardinality({i \in 1..Len(front) : ~TypeLt(x, front[i])})
         IN  SubSeq(front, 1, n) \o <<x>> \o SubSeq(front, n + 1, Len(front))

\* C6: the text of a Union lists its members in sorted order, whatever the
\* order they are stored in, and its JSON lists them in stored order:
\* "Array<never> | Array<any>" is rendered "Array<any> | Array<never>", and in
\* JSON with the array of never first.
C6_SortedText ==
    op = "str" /\ t1.k = "union" =>
        /\ text = join(<<" ", "|", " ">>,
                       [i \in 1..Len(t1.types) |-> str(sorted(t1.types)[i])], 1)
        /\ Len(t1.types) = 2 =>
              json = <<"[", "\"", "u", "n", "i", "o", "n", "\"", ",", " ">>
                     \o jsonStr(t1.types[1]) \o <<",", " ">> \o jsonStr(t1.types[2]) \o <<"]">>

\* C7: the text s rendered for a type parses, and the type parsed from it is
\* rendered as s again.
C7_RoundTrip ==
    op = "check" =>
        /\ res.k \notin {"ActorError", "AssertionError"}
        /\ text2 = text

(***************************************************************************)
(* Properties of the members of a Union.                                   *)
(***************************************************************************)
RECURSIVE wellFormed(_)
\* Every Union at any depth of t has at least two members, none of them a
\* Union.
wellFormed(t) ==
    IF t.k = "object" THEN \A i \in 1..Len(t.types) : wellFormed(t.types[i].type)
    ELSE IF t.k = "array" THEN wellFormed(t.elementType)
    ELSE IF t.k = "union"
    THEN /\ Len(t.types) >= 2
         /\ \A i \in 1..Len(t.types) : t.types[i].k # "union" /\ wellFormed(t.types[i])
    ELSE TRUE

\* C27: every type that is parsed, and every result of tryUnionWith and
\* unionWith on such types and on earlier results, is well formed: each Union
\* has at least two members and no Union among them, and no assertion of the
\* merge fails, "a | (b | c)" included.
C27_UnionWellFormed ==
    /\ wellFormed(t1)
    /\ wellFormed(t2)
    /\ op \in {"tryUnionWith", "unionWith"} =>
          /\ ~IsError(res)
          /\ res # None => wellFormed(res)

alternatives(t) ==
    IF t.k = "prim" THEN {t}
    ELSE IF t.k = "union"
    THEN {t.types[i] : i \in {j \in 1..Len(t.types) : t.types[j].k = "prim"}}
    ELSE {}

\* C29: when unionWith(t1, t2) returns a type other than Any, every
\* Primitive that is t1, t2 or a top-level member of one of them is the
\* result or a top-level member of it, also for operands that are Unions
\* with a never or any member.
C29_NoAlternativeDropped ==
    op = "unionWith" /\ ~IsError(res) /\ res # AnyType =>
        alternatives(t1) \cup alternatives(t2) \subseteq alternatives(res)

RECURSIVE greedyAbsorb(_, _, _)
\* The members after a Union with these members has absorbed the incoming
\* members, from member i on: member i takes the first incoming member, not
\* yet consumed, that tryUnionWith merges with it, and holds the merge; the
\* incoming members that no member took follow, in their order.
greedyAbsorb(members, incoming, i) ==
    IF i > Len(members) THEN members \o SelectSeq(incoming, LAMBDA x : x # None)
    ELSE LET js == {j \in 1..Len(incoming) :
                       /\ incoming[j] # None
                       /\ tryUnionWith(members[i], incoming[j]) # None}
             j == CHOOSE j \in js : \A h \in js : j <= h
         IN  IF js = {} THEN greedyAbsorb(members, incoming, i + 1)
             ELSE greedyAbsorb([members EXCEPT ![i] = tryUnionWith(members[i], incoming[j])],
                               [incoming EXCEPT ![j] = None], i + 1)

\* The members that come in with x: its members, or x itself.
incomingMembers(x) == IF x.k = "union" THEN x.types ELSE <<x>>

\* C21: when a Union absorbs x (tryUnionWith with the Union on the right, or
\* on the left of a type that is not a Union, Any or Never), the result is
\* the Union of greedyAbsorb: each member in its place, replaced by the merge
\* with the first incoming member it is compatible with, and the incoming
\* members that were not consumed appended in their order.
C21_GreedyInPlace ==
    /\ op \in {"tryUnionWith", "unionWith"}
    /\ ~IsError(res)
    => /\ t2.k = "union" =>
             res = UnionType(greedyAbsorb(t2.types, incomingMembers(t1), 1))
       /\ t1.k = "union" /\ t2.k \notin {"union", "any", "never"} =>
             res = UnionType(greedyAbsorb(t1.types, incomingMembers(t2), 1))

(***************************************************************************)
(* What unify1 returns is what MessageTypes takes.                         *)
(***************************************************************************)
\* ActorDecls.unify, one message: newActors.addActor(a, ActorDecl(Loc())),
\* then newActors.addMessage(Loc(), a, m, newTypes).
unifyStores(a, m, newTypes) ==
    addMessage(addActor(<< >>, a, ActorDecl(Loc(<< >>, 0))).actors,
               Loc(<< >>, 0), a, m, newTypes)

\* C30: every list that unify1 returns has one or two slots, a list of one
\* slot has its slot set and a list of two slots has one of them set, so
\* that MessageTypes and addMessage, as unify calls them for an actor and a
\* message whose names are identifiers, fail no assertion and the message is
\* stored; with no observation of any of the four kinds
\* unify1 does not return but raises "has no types".
C30_ReturnedSlotsStorable ==
    /\ unified # None /\ unified.k = "returned" =>
          /\ Len(unified.newTypes) \in {1, 2}
          /\ \E i \in 1..Len(unified.newTypes) : unified.newTypes[i] # None
          /\ ~IsError(MessageTypes(Loc(<< >>, 0), unified.newTypes))
          /\ unifyStores(<<"A">>, <<"M">>, unified.newTypes).raised = None
          /\ unifyStores(<<"A">>, <<"M">>, unified.newTypes).ret
    /\ unified # None /\ kindTypes = NoObservations => unified = Raised("has no types")

\* unify1 returned two slots for a message without query observations: the
\* first slot is unset, the second is set.
C30_Witness ==
    /\ unified # None
    /\ unified.k = "returned"
    /\ Len(unified.newTypes) = 2
    /\ unified.newTypes[1] = None
    /\ unified.newTypes[2] # None
    /\ kindTypes[2] = << >>

(***************************************************************************)
(* The first message that is declared twice.                               *)
(***************************************************************************)
\* The messages of TwoMessages(M, .., n2, .., more), as name and line.
declaredMessages(n2, more) ==
    << << <<"M">>, 2>>, <<n2, 3>> >>
    \o (IF more = MoreM THEN << << <<"M">>, 4>> >>
        ELSE IF more = MoreNM THEN << << <<"N">>, 4>>, << <<"M">>, 5>> >>
        ELSE IF more = << >> THEN << >>
        ELSE IF more[3] = "N" THEN << << <<"N">>, 3>> >>
        ELSE << << <<"P">>, 3>> >>)

\* The positions of the declarations of a name that is declared before.
repeats(decls) ==
    {j \in 1..Len(decls) : \E i \in 1..(j - 1) : decls[i][1] = decls[j][1]}

\* The first position of them.
firstRepeat(decls) == CHOOSE j \in repeats(decls) : \A k \in repeats(decls) : j <= k

\* The first declaration of the name that position j declares.
firstOf(decls, j) ==
    CHOOSE i \in 1..Len(decls) :
        /\ decls[i][1] = decls[j][1]
        /\ \A k \in 1..(i - 1) : decls[k][1] # decls[j][1]

\* C24: when the messages of an actor, all of valid names and types, declare
\* a name twice, the parse raises "Multiple declarations of message" for the
\* first declaration in the text that repeats a name, at the line of that
\* declaration and with the line of the first declaration of the name,
\* whatever follows it: valid messages, or messages that are declared
\* already; nothing is registered.
C24_FirstDuplicateWins ==
    [][call'.method = "parseFiles" =>
         \A q1 \in Quotes, q2 \in Quotes, n2 \in {<<"M">>, <<"N">>}, more \in MoreMessages,
            ty1 \in {<<"a", "n", "y">>, ArrowText(<<"a", "n", "y">>, <<"a", "n", "y">>)},
            ty2 \in {<<"a", "n", "y">>, ArrowText(<<"n", "e", "v", "e", "r">>, <<"a", "n", "y">>)} :
            /\ text' = TwoMessages(<<q1, <<"M">>>>, ty1, <<q2, n2>>, ty2, more)
            /\ repeats(declaredMessages(n2, more)) # {}
            => /\ raised' = ActorErrorAt(
                     Loc("test", declaredMessages(n2, more)[firstRepeat(declaredMessages(n2, more))][2]),
                     "Multiple declarations of message",
                     <<declaredMessages(n2, more)[firstRepeat(declaredMessages(n2, more))][1], <<"A">>>>,
                     Loc("test", declaredMessages(n2, more)[
                            firstOf(declaredMessages(n2, more),
                                    firstRepeat(declaredMessages(n2, more)))][2]))
               /\ ads' = ads]_vars

\* M is declared on lines 2 and 3, N and M again on lines 4 and 5: the error
\* is the one of line 3.
C24_Witness ==
    /\ call.method = "parseFiles"
    /\ text = TwoMessages(<<<< >>, <<"M">>>>, <<"a", "n", "y">>, <<<< >>, <<"M">>>>,
                          <<"a", "n", "y">>, MoreNM)
    /\ raised = ActorErrorAt(Loc("test", 3), "Multiple declarations of message",
                             << <<"M">>, <<"A">> >>, Loc("test", 2))

(***************************************************************************)
(* The ordering of types.                                                  *)
(***************************************************************************)
\* The types that are compared: the types the grammar builds, and Objects
\* with names that are written as strings.
OrderTypes ==
    ParsedTypes
    \cup {ObjectType(<<JSPropertyType(StrName(n), AnyType, o)>>) :
             n \in {<<"8">>, <<"A", " ">>, <<"\"">>, << >>}, o \in BOOLEAN}

InitOrder ==
    /\ t1 \in OrderTypes
    /\ t2 = NeverType
    /\ InitMerge
    /\ actor = "Conduits"
    /\ InitUnify
    /\ InitText
    /\ InitStore

\* t1 < o, t1 == o and o < t1 for a second type o, as sorted and the checks
\* of ObjectType.__init__ compare two values.
Compare ==
    /\ op = "init"
    /\ \E o \in OrderTypes :
          /\ t2' = o
          /\ res' = [k |-> "compared", lt |-> TypeLt(t1, o), eq |-> (t1 = o),
                     gt |-> TypeLt(o, t1)]
    /\ op' = "lt"
    /\ UNCHANGED <<t1, args, folds>>
    /\ UNCHANGED unifyVars
    /\ UNCHANGED textVars
    /\ UNCHANGED storeVars

SpecOrder == InitOrder /\ [][Compare]_vars

\* The rank of the variants.
rank(t) == Index(<<"any", "never", "prim", "object", "array", "union">>, t.k)

\* Third operands for transitivity: types of every variant.
Thirds ==
    Leaves \cup NestedObjects
    \cup {ObjA, ObjAB, ArrayType(Str), ArrayType(ObjA), p_JSType_union(Str, Num),
          p_JSType_union(ObjA, Str), p_JSType_union(Str, p_JSType_union(Num, Str)),
          p_JSType_union(p_JSType_union(Str, Num), Str),
          ObjectType(<<JSPropertyType(StrName(<<"8">>), AnyType, FALSE)>>),
          ObjectType(<<JSPropertyType(Name8, AnyType, FALSE)>>)}

\* C23: for two types a and b exactly one of a < b, a == b, b < a holds; no
\* type is less than itself; a < b and b < c give a < c; types of different
\* variants are ordered by the rank any, never, Primitive, Object, Array,
\* Union; a property with a string name is less than one with an integer
\* name.
C23_StrictTotalOrder ==
    op = "lt" =>
        /\ (res.lt /\ ~res.eq /\ ~res.gt)
              \/ (~res.lt /\ res.eq /\ ~res.gt)
              \/ (~res.lt /\ ~res.eq /\ res.gt)
        /\ ~TypeLt(t1, t1)
        /\ res.lt => \A c \in Thirds : TypeLt(t2, c) => TypeLt(t1, c)
        /\ rank(t1) # rank(t2) => res.lt = (rank(t1) < rank(t2))
        /\ t1.k = "object" /\ t2.k = "object" =>
              \A i \in 1..Len(t1.types), j \in 1..Len(t2.types) :
                 ~t1.types[i].name.isInt /\ t2.types[j].name.isInt =>
                    /\ PropLt(t1.types[i], t2.types[j])
                    /\ ~PropLt(t2.types[j], t1.types[i])

(***************************************************************************)
(* The arguments of a merge that reports incompatibility.                  *)
(***************************************************************************)
\* C28: when tryUnionWith(t1, t2) returns None, the objects t1 and t2 have
\* after the call the values they had before, and so they have when
\* unionWith pairs them in a new Union; in the scan of absorbUnion every
\* attempt that returns None leaves the two members as they were, a member
\* of the absorbing Union that unions with no incoming member is in the
\* result at its position as it was, and an incoming member that no member
\* unions with is in the result as it was.
C28_IncompatibleUntouched ==
    /\ op = "tryUnionWith" /\ res = None => args = <<t1, t2>>
    /\ op = "unionWith" /\ tryUnionWith(t1, t2) = None =>
          /\ args = <<t1, t2>>
          /\ res = UnionType(<<t1, t2>>)
    /\ /\ op \in {"tryUnionWith", "unionWith"}
       /\ t1.k = "union"
       /\ t2.k = "union"
       /\ ~IsError(res)
       => /\ \A i \in 1..Len(t2.types), j \in 1..Len(t1.types) :
                tryUnionWith(t2.types[i], t1.types[j]) = None =>
                   /\ arg1After(t2.types[i], t1.types[j]) = t2.types[i]
                   /\ arg2After(t2.types[i], t1.types[j]) = t1.types[j]
          /\ \A i \in 1..Len(t2.types) :
                (\A j \in 1..Len(t1.types) : tryUnionWith(t2.types[i], t1.types[j]) = None)
                => res.types[i] = t2.types[i]
          /\ \A j \in 1..Len(t1.types) :
                (\A i \in 1..Len(t2.types) : tryUnionWith(t2.types[i], t1.types[j]) = None)
                => /\ args[1].types[j] = t1.types[j]
                   /\ \E n \in 1..Len(res.types) : res.types[n] = t1.types[j]

\* tryUnionWith of an Object with properties that are not optional and an
\* Array has returned None.
C28_Witness ==
    /\ op = "tryUnionWith"
    /\ res = None
    /\ t1.k = "object"
    /\ \E i \in 1..Len(t1.types) : ~t1.types[i].optional
    /\ t2.k = "array"
    /\ args = <<t1, t2>>

(***************************************************************************)
(* The log of type observations: lookAtActors (logparse.py:59-187) groups  *)
(* the lines by raw type, then gives every message its lists of types.     *)
(***************************************************************************)
RawA == <<"{", "A", ":", " ", "s", "t", "r", "i", "n", "g", "}">>

RawB == <<"{", "B", ":", " ", "n", "u", "m", "b", "e", "r", "}">>

NoValue == <<"N", "O", " ", "V", "A", "L", "U", "E">>

Conduits == <<"C", "o", "n", "d", "u", "i", "t", "s">>

CreateProxyContext ==
    <<"C", "r", "e", "a", "t", "e", "P", "r", "o", "x", "y", "C", "o", "n", "t", "e", "x", "t">>

\* A line of JSIPCTypeSend that typePatt matches: ACTOR, MESSAGE, KIND as
\* kindToEnum gives it, TYPE.
LogLine(rawType, actorName, messageName, kind) ==
    [rawType |-> rawType, actorName |-> actorName, messageName |-> messageName,
     kind |-> kind]

\* The lines of the log: two raw types for three kinds of message M of
\* actor B and for its message A, one for a message of actor A, and lines
\* that are skipped.
LogLines ==
    {LogLine(r, <<"B">>, <<"M">>, kind) : r \in {RawA, RawB}, kind \in {0, 2, 3}}
    \cup {LogLine(r, <<"B">>, <<"A">>, 0) : r \in {RawA, RawB}}
    \cup {LogLine(RawA, <<"A">>, <<"M">>, 0),
          LogLine(NoValue, <<"B">>, <<"M">>, 3),
          LogLine(RawA, Conduits, CreateProxyContext, 1)}

\* How many lines are read.
MaxLines == 3

\* The kinds of a message in typeActors: "an integer or a set of integers".
IntKind(kind) == [isInt |-> TRUE, kinds |-> {kind}]

SetKind(kinds) == [isInt |-> FALSE, kinds |-> kinds]

\* d.get(key, default)
Get(d, key, default) == IF key \in Keys(d) THEN Lookup(d, key) ELSE default

\* The lines that are skipped before the grouping (logparse.py:98-118).
skipped(l) ==
    \/ l.rawType = NoValue
    \/ l.rawType = <<"F", "A", "I", "L", "E", "D">>
    \/ l.actorName = Conduits /\ l.messageName = CreateProxyContext /\ l.kind = 1

\* Grouping with a set that takes the kind that does not match as well.
recordKindAddsBoth(currActor, messageName, kind) ==
    IF messageName \notin Keys(currActor)
    THEN Append(currActor, Item(messageName, IntKind(kind)))
    ELSE IF Lookup(currActor, messageName) = IntKind(kind) THEN currActor
    ELSE Store(currActor, messageName,
               SetKind(Lookup(currActor, messageName).kinds \cup {kind}))

\* existingKind = currActor.setdefault(messageName, kind) and what follows
\* (logparse.py:122-133): currActor after the line.
recordKind(currActor, messageName, kind) ==
    IF messageName \notin Keys(currActor)
    THEN Append(currActor, Item(messageName, IntKind(kind)))
    ELSE IF Lookup(currActor, messageName) = IntKind(kind) THEN currActor
    ELSE IF Lookup(currActor, messageName).isInt
    THEN Store(currActor, messageName, SetKind(Lookup(currActor, messageName).kinds))
    ELSE Store(currActor, messageName,
               SetKind(Lookup(currActor, messageName).kinds \cup {kind}))

\* One line of the log: typeActors after it.
lookAtLine(d, l) ==
    IF skipped(l) THEN d
    ELSE Store(d, l.rawType,
               Store(Get(d, l.rawType, << >>), l.actorName,
                     recordKind(Get(Get(d, l.rawType, << >>), l.actorName, << >>),
                                l.messageName, l.kind)))

RECURSIVE kindsInOrder(_)
\* "for kind in kinds": a set of small integers is gone through in
\* ascending order.
kindsInOrder(kinds) ==
    IF kinds = {} THEN << >>
    ELSE <<CHOOSE k \in kinds : \A j \in kinds : k <= j>>
         \o kindsInOrder(kinds \ {CHOOSE k \in kinds : \A j \in kinds : k <= j})

RECURSIVE messageUses(_, _, _, _)
\* "for messageName, kinds0 in messages.items()", from message n on: the
\* slots that raw type i is appended to, in order.
messageUses(i, actorName, messages, n) ==
    IF n > Len(messages) THEN << >>
    ELSE [k \in 1..Cardinality(messages[n].value.kinds) |->
             [i |-> i, actorName |-> actorName, messageName |-> messages[n].key,
              kind |-> kindsInOrder(messages[n].value.kinds)[k]]]
         \o messageUses(i, actorName, messages, n + 1)

RECURSIVE actorUses(_, _, _)
\* "for actorName, messages in actors0.items()", from actor n on.
actorUses(i, actors0, n) ==
    IF n > Len(actors0) THEN << >>
    ELSE messageUses(i, actors0[n].key, actors0[n].value, 1) \o actorUses(i, actors0, n + 1)

RECURSIVE typeUses(_, _)
\* "for rawType, actors0 in typeActors.items()", from raw type i on.
typeUses(d, i) ==
    IF i > Len(d) THEN << >>
    ELSE actorUses(i, d[i].value, 1) \o typeUses(d, i + 1)

\* An object of the heap: its identity and its value.
Obj(id, ty) == [id |-> id, ty |-> ty]

\* The conversion without deepcopy: every slot gets the parsed object.
typeForShared(i, earlier, ty) == Obj(<<i, 0>>, ty)

\* What is appended to currTypes: the object that parsing raw type i has
\* made when no slot has it (typeUsed is False), a deep copy of it, which is
\* a new object, when earlier slots have taken it.
typeFor(i, earlier, ty) == Obj(<<i, earlier>>, ty)

\* currMessage[kind].append(...) for the slot of actorName, messageName.
appendType(slots, actorName, messageName, kind, o) ==
    Store(slots, actorName,
          Store(Get(slots, actorName, << >>), messageName,
                [Get(Get(slots, actorName, << >>), messageName, NoObservations)
                    EXCEPT ![kind + 1] = Append(@, o)]))

RECURSIVE convertFrom(_, _, _, _)
\* The conversion to actor first (logparse.py:154-187), from use n on.
convertFrom(d, us, n, slots) ==
    IF n > Len(us) THEN slots
    ELSE convertFrom(d, us, n + 1,
             appendType(slots, us[n].actorName, us[n].messageName, us[n].kind,
                        typeFor(us[n].i,
                                Cardinality({k \in 1..(n - 1) : us[k].i = us[n].i}),
                                simplify(parse(d[us[n].i].key)))))

InitLookAtActors ==
    /\ t1 = NeverType
    /\ t2 = NeverType
    /\ InitMerge
    /\ actor = "Conduits"
    /\ InitUnify
    /\ InitText
    /\ InitStore

\* "for l in sys.stdin": one more line of JSIPCTypeSend.
ReadLine ==
    /\ op = "init"
    /\ Len(log) < MaxLines
    /\ \E l \in LogLines :
          /\ log' = Append(log, l)
          /\ typeActors' = lookAtLine(typeActors, l)
    /\ UNCHANGED <<actor, kindTypes, unified, actorSlots, newActors>>
    /\ UNCHANGED mergeVars
    /\ UNCHANGED textVars
    /\ UNCHANGED storeVars

\* The end of the input: the conversion of typeActors to actors.
Convert ==
    /\ op = "init"
    /\ op' = "converted"
    /\ actorSlots' = convertFrom(typeActors, typeUses(typeActors, 1), 1, << >>)
    /\ UNCHANGED <<t1, t2, res, args, folds>>
    /\ UNCHANGED <<actor, kindTypes, unified, log, typeActors, newActors>>
    /\ UNCHANGED textVars
    /\ UNCHANGED storeVars

\* The lines read that are not skipped.
observed == {log[n] : n \in {n \in 1..Len(log) : ~skipped(log[n])}}

\* The kinds that typeActors holds for a raw type, an actor and a message.
recordedKinds(d, rawType, actorName, messageName) ==
    Get(Get(Get(d, rawType, << >>), actorName, << >>), messageName, SetKind({})).kinds

\* How often the list of the slot holds the value ty.
timesInSlot(slots, actorName, messageName, kind, ty) ==
    Cardinality({n \in 1..Len(Get(Get(slots, actorName, << >>), messageName,
                                  NoObservations)[kind + 1]) :
                    Get(Get(slots, actorName, << >>), messageName,
                        NoObservations)[kind + 1][n].ty = ty})

\* The objects in the lists of the slots.
slotObjects(slots) ==
    UNION {UNION {UNION {{slots[a].value[m].value[k][n] :
                             n \in 1..Len(slots[a].value[m].value[k])} :
                         k \in 1..4} :
                  m \in 1..Len(slots[a].value)} :
           a \in 1..Len(slots)}

\* The heap after the conversion: the value of every object, by identity.
heapOf(slots) ==
    [id \in {o.id : o \in slotObjects(slots)} |->
        (CHOOSE o \in slotObjects(slots) : o.id = id).ty]

\* An object that unionWith has made is in no list.
NoId == <<0, 0>>

\* The value of an object now.
valueOf(heap, o) == IF o.id \in DOMAIN heap THEN heap[o.id] ELSE o.ty

\* unionWith(tCombined, t): the heap after the call, which changes its two
\* arguments in place.
heapAfterUnion(heap, tCombined, t) ==
    [id \in DOMAIN heap |->
        IF id = tCombined.id THEN arg1After(valueOf(heap, tCombined), valueOf(heap, t))
        ELSE IF id = t.id THEN arg2After(valueOf(heap, tCombined), valueOf(heap, t))
        ELSE heap[id]]

\* unionWith(tCombined, t): the object that is returned, which is the first
\* argument, the second, or a new Union of the two.
unionWithObject(heap, tCombined, t) ==
    IF tryUnionWith(valueOf(heap, tCombined), valueOf(heap, t)) = None
    THEN Obj(NoId, unionWith(valueOf(heap, tCombined), valueOf(heap, t)))
    ELSE IF \/ valueOf(heap, t).k \in {"any", "union"}
            \/ valueOf(heap, t).k # "never" /\ valueOf(heap, tCombined).k = "never"
    THEN Obj(t.id, unionWith(valueOf(heap, tCombined), valueOf(heap, t)))
    ELSE Obj(tCombined.id, unionWith(valueOf(heap, tCombined), valueOf(heap, t)))

RECURSIVE unionWithAllIn(_, _, _, _)
\* "for t in types: tCombined = unionWith(tCombined, t)" from object i on:
\* the heap after the loop.  The members of a Union that unionWith has made
\* are not followed further.
unionWithAllIn(heap, types, i, tCombined) ==
    IF i > Len(types) THEN heap
    ELSE unionWithAllIn(heapAfterUnion(heap, tCombined, types[i]), types, i + 1,
                        unionWithObject(heap, tCombined, types[i]))

RECURSIVE unify1In(_, _, _)
\* unify1 on the lists of one message, from kind on: the heap after it.
unify1In(heap, kindObjects, kind) ==
    IF kind > 3 THEN heap
    ELSE IF Len(kindObjects[kind + 1]) < 2 THEN unify1In(heap, kindObjects, kind + 1)
    ELSE unify1In(unionWithAllIn(heap, kindObjects[kind + 1], 2, kindObjects[kind + 1][1]),
                  kindObjects, kind + 1)

\* The values now of the objects in the lists of one message.
valuesOf(heap, kindObjects) ==
    [k \in 1..4 |-> [n \in 1..Len(kindObjects[k]) |-> valueOf(heap, kindObjects[k][n])]]

RECURSIVE sortedNames(_)
\* sorted(list(d.keys())) for names.
sortedNames(names) ==
    IF names = {} THEN << >>
    ELSE <<CHOOSE n \in names : \A o \in names : o = n \/ StrLt(n, o)>>
         \o sortedNames(names \ {CHOOSE n \in names : \A o \in names : o = n \/ StrLt(n, o)})

RECURSIVE unifyOrder(_, _, _)
\* "for a in sorted(...): for m in sorted(...)": the messages in the order
\* ActorDecls.unify goes through them, from actor n of the sorted names on.
unifyOrder(slots, names, n) ==
    IF n > Len(names) THEN << >>
    ELSE [k \in 1..Len(Lookup(slots, names[n])) |->
             <<names[n], sortedNames(Keys(Lookup(slots, names[n])))[k]>>]
         \o unifyOrder(slots, names, n + 1)

RECURSIVE unifyFrom(_, _, _, _, _)
\* ActorDecls.unify from message n of the order on: the messages with the
\* types that unify1 has returned, up to the message for which it raises.
unifyFrom(slots, heap, order, n, messages) ==
    IF n > Len(order) THEN [messages |-> messages, raised |-> None]
    ELSE IF unify1(order[n][1], order[n][2],
                   valuesOf(heap, Lookup(Lookup(slots, order[n][1]), order[n][2]))).k
              = "raised"
    THEN [messages |-> messages,
          raised |-> unify1(order[n][1], order[n][2],
                            valuesOf(heap, Lookup(Lookup(slots, order[n][1]),
                                                  order[n][2])))]
    ELSE unifyFrom(slots,
                   unify1In(heap, Lookup(Lookup(slots, order[n][1]), order[n][2]), 0),
                   order, n + 1,
                   Append(messages,
                          Item(order[n],
                               unify1(order[n][1], order[n][2],
                                      valuesOf(heap, Lookup(Lookup(slots, order[n][1]),
                                                            order[n][2]))).newTypes)))

\* actors = ActorDecls.unify(actors, ...)
UnifyActors ==
    /\ op = "converted"
    /\ op' = "unified"
    /\ newActors' = unifyFrom(actorSlots, heapOf(actorSlots),
                              unifyOrder(actorSlots, sortedNames(Keys(actorSlots)), 1),
                              1, << >>)
    /\ UNCHANGED <<t1, t2, res, args, folds>>
    /\ UNCHANGED <<actor, kindTypes, unified, log, typeActors, actorSlots>>
    /\ UNCHANGED textVars
    /\ UNCHANGED storeVars

NextLog == ReadLine \/ Convert \/ UnifyActors

SpecLog == InitLookAtActors /\ [][NextLog]_vars

\* C25: for every raw type, actor and message, the kinds that typeActors
\* holds are the kinds of the lines read for them that are not skipped; and
\* after the conversion the list of a slot holds the parsed raw type once
\* when a line of the slot with the raw type was read, and not at all when
\* none was.
C25_NoObservationLost ==
    \A r \in {RawA, RawB}, a \in {<<"A">>, <<"B">>}, m \in {<<"A">>, <<"M">>} :
       /\ recordedKinds(typeActors, r, a, m)
             = {kind \in 0..3 : LogLine(r, a, m, kind) \in observed}
       /\ op = "converted" =>
             \A kind \in 0..3 :
                timesInSlot(actorSlots, a, m, kind, simplify(parse(r)))
                   = IF LogLine(r, a, m, kind) \in observed THEN 1 ELSE 0

\* The values at the conversion of the objects in the lists of a message.
observations(slots, key) ==
    [k \in 1..4 |->
        [n \in 1..Len(Lookup(Lookup(slots, key[1]), key[2])[k]) |->
            Lookup(Lookup(slots, key[1]), key[2])[k][n].ty]]

\* C26: after the conversion no object is in two places of the lists of the
\* slots, and of the objects of one raw type one is the parsed object and
\* the others are copies; every message that ActorDecls.unify has unified
\* has the types that unify1 gives for its observations alone, and when
\* unify1 raises, it raises what it raises for the observations of that
\* message alone.
C26_NoSlotAliasing ==
    /\ op \in {"converted", "unified"} =>
          /\ \A a \in 1..Len(actorSlots) : \A m \in 1..Len(actorSlots[a].value) :
                \A k \in 1..4 : \A n \in 1..Len(actorSlots[a].value[m].value[k]) :
                   \A a2 \in 1..Len(actorSlots) : \A m2 \in 1..Len(actorSlots[a2].value) :
                      \A k2 \in 1..4 : \A n2 \in 1..Len(actorSlots[a2].value[m2].value[k2]) :
                         actorSlots[a].value[m].value[k][n].id
                            = actorSlots[a2].value[m2].value[k2][n2].id
                         => <<a, m, k, n>> = <<a2, m2, k2, n2>>
          /\ \A o \in slotObjects(actorSlots) :
                \E p \in slotObjects(actorSlots) : p.id = <<o.id[1], 0>> /\ p.ty = o.ty
    /\ op = "unified" =>
          /\ \A n \in 1..Len(newActors.messages) :
                Returned(newActors.messages[n].value)
                   = unify1(newActors.messages[n].key[1], newActors.messages[n].key[2],
                            observations(actorSlots, newActors.messages[n].key))
          /\ newActors.raised # None =>
                newActors.raised
                   = unify1(unifyOrder(actorSlots, sortedNames(Keys(actorSlots)), 1)
                               [Len(newActors.messages) + 1][1],
                            unifyOrder(actorSlots, sortedNames(Keys(actorSlots)), 1)
                               [Len(newActors.messages) + 1][2],
                            observations(actorSlots,
                               unifyOrder(actorSlots, sortedNames(Keys(actorSlots)), 1)
                                  [Len(newActors.messages) + 1]))

\* The raw type {A: string} was read for message A and for message M of
\* actor B, and {B: number} for message A: message A, which is unified
\* first, has merged its two Objects in place, and message M has the type
\* that was read.
C26_Witness ==
    /\ op = "unified"
    /\ Len(newActors.messages) = 2
    /\ newActors.raised = None
    /\ newActors.messages[1].key = << <<"B">>, <<"A">> >>
    /\ newActors.messages[1].value
          = <<unionWith(simplify(parse(RawA)), simplify(parse(RawB)))>>
    /\ newActors.messages[2].key = << <<"B">>, <<"M">> >>
    /\ newActors.messages[2].value = <<simplify(parse(RawA))>>
    /\ typeActors[1].key = RawA
    /\ typeActors[1].value[1].value[1].key = <<"A">>
====
